---- MODULE Spec2Model ----
(***************************************************************************)
(* PredictionScope agent: observe -> analyze -> decide -> create -> submit *)
(* A model of the selection function (agent/decide.ts), of the run driver  *)
(* (agent/index.ts) and of the publication step (agent/submit.ts).         *)
(*                                                                         *)
(* Numbers that are fractions in the source are kept as integer hundredths *)
(* (score 0.85 is 85, weight 0.35 is 35, minScore 0.3 is 30).              *)
(***************************************************************************)
EXTENDS Integers, Sequences, FiniteSets, TLC

(***************************************************************************)
(* Bounds of the model                                                     *)
(***************************************************************************)
\* longest opportunity list handed to decide() in the selection specification
MaxDecideOpps == 4
\* largest maxArticles handed to decide() in the selection specification
MaxDecideArticles == 3
\* calls of decide() on one opportunities array in the selection specification
DecideCalls == 2

(***************************************************************************)
(* Program constants                                                       *)
(***************************************************************************)
\* DEFAULT_CONFIG.maxArticles, and the `|| 3` fallback of main()
DefaultMaxArticles == 3
\* DEFAULT_CONFIG.minScore and the `|| 0.3` fallback of main(), in hundredths
DefaultMinScore == 30
\* Math.max(1, ...) of the educational target
EducationalFloor == 1

Buckets == {"educational", "topical", "affiliate"}

\* the order of the first pass: for (const bucket of [...])
BucketOrder == <<"educational", "topical", "affiliate">>

\* DEFAULT_CONFIG.bucketWeights, in hundredths
DefaultWeights == [educational |-> 50, topical |-> 35, affiliate |-> 15]

(***************************************************************************)
(* Helpers                                                                 *)
(***************************************************************************)
Max(a, b) == IF a >= b THEN a ELSE b

Min(a, b) == IF a <= b THEN a ELSE b

Range(s) == {s[i] : i \in 1..Len(s)}

\* Math.round(n * w) for n >= 0 and a weight of w hundredths: halves round up
Round(n, w) == (n * w + 50) \div 100

\* the sequences over S of length at most n
SeqUpTo(S, n) == UNION {[1..k -> S] : k \in 0..n}

(***************************************************************************)
(* decide(): agent/decide.ts                                               *)
(* An opportunity is a JavaScript object; `selected.includes(o)` compares  *)
(* references, so the model selects INDICES into the opportunities array.  *)
(***************************************************************************)

\* mutant: the score filter is left out
ViableUnfiltered(opps, minScore) == [i \in 1..Len(opps) |-> i]

\* opportunities.filter(o => o.score >= minScore), as indices in input order
RECURSIVE ViableFrom(_, _, _)
ViableFrom(opps, minScore, i) ==
    IF i > Len(opps) THEN <<>>
    ELSE IF opps[i].score >= minScore
         THEN <<i>> \o ViableFrom(opps, minScore, i + 1)
         ELSE ViableFrom(opps, minScore, i + 1)

Viable(opps, minScore) == ViableFrom(opps, minScore, 1)

\* idxs.filter(keep), order kept
RECURSIVE FilterIdx(_, _)
FilterIdx(idxs, keep) ==
    IF idxs = <<>> THEN <<>>
    ELSE IF Head(idxs) \in keep
         THEN <<Head(idxs)>> \o FilterIdx(Tail(idxs), keep)
         ELSE FilterIdx(Tail(idxs), keep)

\* one insertion of a stable descending sort: i goes after every element
\* whose score is >= its own
InsertByScore(opps, sorted, i) ==
    LET pos == Cardinality({j \in 1..Len(sorted) :
                              opps[sorted[j]].score >= opps[i].score})
    IN SubSeq(sorted, 1, pos) \o <<i>> \o SubSeq(sorted, pos + 1, Len(sorted))

\* .sort((a, b) => b.score - a.score): Array.prototype.sort is stable
RECURSIVE SortInto(_, _, _)
SortInto(opps, sorted, idxs) ==
    IF idxs = <<>> THEN sorted
    ELSE SortInto(opps, InsertByScore(opps, sorted, Head(idxs)), Tail(idxs))

\* mutant: the sort is left out
SortByScoreKeepsOrder(opps, idxs) == idxs

SortByScore(opps, idxs) == SortInto(opps, <<>>, idxs)

\* mutant: the educational bucket has no floor of one
TargetCountsNoFloor(maxArticles, bucketWeights) ==
    [educational |-> Max(0, Round(maxArticles, bucketWeights.educational)),
     topical     |-> Max(0, Round(maxArticles, bucketWeights.topical)),
     affiliate   |-> Max(0, Round(maxArticles, bucketWeights.affiliate))]

\* mutant: every bucket has the floor of the educational bucket
TargetCountsFloorOne(maxArticles, bucketWeights) ==
    [educational |-> Max(EducationalFloor, Round(maxArticles, bucketWeights.educational)),
     topical     |-> Max(EducationalFloor, Round(maxArticles, bucketWeights.topical)),
     affiliate   |-> Max(EducationalFloor, Round(maxArticles, bucketWeights.affiliate))]

\* targetCounts
TargetCounts(maxArticles, bucketWeights) ==
    [educational |-> Max(EducationalFloor, Round(maxArticles, bucketWeights.educational)),
     topical     |-> Max(0, Round(maxArticles, bucketWeights.topical)),
     affiliate   |-> Max(0, Round(maxArticles, bucketWeights.affiliate))]

\* the inner loop of the first pass: for (const opp of bucketOpps) { break; break; push }
RECURSIVE FillBucket(_, _, _, _, _)
FillBucket(selected, count, bucketOpps, target, maxArticles) ==
    IF bucketOpps = <<>> THEN selected
    ELSE IF count >= target THEN selected
    ELSE IF Len(selected) >= maxArticles THEN selected
    ELSE FillBucket(Append(selected, Head(bucketOpps)), count + 1,
                    Tail(bucketOpps), target, maxArticles)

\* mutant: the opportunities of a bucket are taken in input order
BucketOppsUnsorted(opps, viable, bucket) ==
    FilterIdx(viable, {i \in Range(viable) : opps[i].bucket = bucket})

\* viable.filter(o => o.bucket === bucket).sort(...)
BucketOpps(opps, viable, bucket) ==
    SortByScore(opps,
                FilterIdx(viable, {i \in Range(viable) : opps[i].bucket = bucket}))

\* the first pass: fill each bucket up to its target, in BucketOrder
RECURSIVE FirstPassFrom(_, _, _, _, _, _)
FirstPassFrom(opps, viable, targets, maxArticles, selected, b) ==
    IF b > Len(BucketOrder) THEN selected
    ELSE FirstPassFrom(opps, viable, targets, maxArticles,
                       FillBucket(selected, 0,
                                  BucketOpps(opps, viable, BucketOrder[b]),
                                  targets[BucketOrder[b]], maxArticles),
                       b + 1)

\* mutant: the first pass is left out
FirstPassSkipped(opps, viable, targets, maxArticles) == <<>>

FirstPass(opps, viable, targets, maxArticles) ==
    FirstPassFrom(opps, viable, targets, maxArticles, <<>>, 1)

\* the loop of the second pass: for (const opp of remaining) { break; push }
RECURSIVE FillRemaining(_, _, _)
FillRemaining(selected, remaining, maxArticles) ==
    IF remaining = <<>> THEN selected
    ELSE IF Len(selected) >= maxArticles THEN selected
    ELSE FillRemaining(Append(selected, Head(remaining)), Tail(remaining),
                       maxArticles)

\* mutant: the second pass does not leave out what is selected already
SecondPassNoIncludes(opps, viable, selected, maxArticles) ==
    IF Len(selected) < maxArticles
    THEN FillRemaining(selected, SortByScore(opps, viable), maxArticles)
    ELSE selected

\* mutant: the second pass is left out
SecondPassSkipped(opps, viable, selected, maxArticles) == selected

\* the second pass: if (selected.length < maxArticles) fill with the
\* highest-scoring remaining
SecondPass(opps, viable, selected, maxArticles) ==
    IF Len(selected) < maxArticles
    THEN FillRemaining(selected,
                       SortByScore(opps,
                                   FilterIdx(viable, Range(viable) \ Range(selected))),
                       maxArticles)
    ELSE selected

\* mutant: maxArticles is read as `maxArticles || 3`, so 0 selects three
DecideIdxFalsyMax(opps, maxArticles, bucketWeights, minScore) ==
    LET viable == Viable(opps, minScore)
        m == IF maxArticles = 0 THEN DefaultMaxArticles ELSE maxArticles
    IN IF Len(viable) = 0 THEN <<>>
       ELSE SecondPass(opps, viable,
                       FirstPass(opps, viable, TargetCounts(m, bucketWeights), m),
                       m)

\* decide(), as the indices of the selected opportunities in selection order
DecideIdx(opps, maxArticles, bucketWeights, minScore) ==
    LET viable == Viable(opps, minScore)
    IN IF Len(viable) = 0 THEN <<>>
       ELSE SecondPass(opps, viable,
                       FirstPass(opps, viable,
                                 TargetCounts(maxArticles, bucketWeights),
                                 maxArticles),
                       maxArticles)

\* decide(): the selected opportunities themselves
Decide(opps, maxArticles, bucketWeights, minScore) ==
    LET sel == DecideIdx(opps, maxArticles, bucketWeights, minScore)
    IN [k \in 1..Len(sel) |-> opps[sel[k]]]


(***************************************************************************)
(* The run: agent/index.ts main(), agent/create.ts, agent/submit.ts        *)
(***************************************************************************)
\* most recommendations the scoring call returned in the earlier run whose
\* files this run finds
MaxEarlier == 1
\* longest list of recommendations the scoring call returns
MaxOpps == 3
\* most words of a generated article
MaxWords == 1

\* what the scoring call may recommend: two slugs are recommended twice
\* (under another title), one recommendation scores below every threshold
Recommendations ==
    { [slug |-> "s1", title |-> "T1", bucket |-> "educational", category |-> "learn",    score |-> 90],
      [slug |-> "s2", title |-> "T2", bucket |-> "topical",     category |-> "politics", score |-> 70],
      [slug |-> "s3", title |-> "T3", bucket |-> "affiliate",   category |-> "best",     score |-> 60],
      [slug |-> "s1", title |-> "T4", bucket |-> "educational", category |-> "learn",    score |-> 50],
      [slug |-> "s2", title |-> "T5", bucket |-> "topical",     category |-> "politics", score |-> 20] }

\* the responses of the scoring call: lists of distinct recommendations
ScorerResponses ==
    {r \in SeqUpTo(Recommendations, MaxOpps) :
        \A i, j \in 1..Len(r) : i # j => r[i] # r[j]}

\* a file of the data directory holding a JSON array: absent, parseable
\* ("ok") or not ("corrupt": JSON.parse throws); `entries` is what its text holds
AbsentFile == [state |-> "absent", entries |-> <<>>]

VARIABLES
    pc,             \* where main() stands: "idle", "analyze", "decide", "create",
                    \* "write", "inventory", "git", "pr", "slack", "log",
                    \* "done" (main returned), "failed" (process.exit(1)), "killed"
    ci,             \* process.env.CI || process.env.GITHUB_ACTIONS: set by the
                    \* deployment (the workflow, or a developer's shell)
    opportunities,  \* main: const opportunities = await analyze(observations)
    assignments,    \* main: const assignments = decide(...)
    status,         \* per assignment: "Pending", "Generating", "Produced", "Failed"
    drafts,         \* main: const drafts: DraftArticle[]
    written,        \* submit: drafts already handed to writeDraft
    files,          \* site/content: path -> content
    inventoryFile,  \* data/inventory.json
    decisionsFile,  \* data/decisions.json
    start,          \* the stored files as they were when main() was started
    calls,          \* per assignment: invocations of the generation call
    error,          \* what main()'s catch logged before process.exit(1): "none",
                    \* "write", "inventory", "git", "log"
    dOpps, dMax, dWeights, dMin, dResult, dDone,
                    \* the selection specification: the arguments of decide(),
                    \* what the last call returned, and whether one was made
    dMissing,       \* the config handed to decide() has bucketWeights: undefined
    dThrew,         \* what the last call of decide() threw: "none", "TypeError"
    dTargets,       \* <<targetCounts>> of the last call, <<>> if it never got there
    dCalls,         \* calls of decide() made on dOpps
    dFirst,         \* the opportunities the first call returned
    configFile      \* data/agent-config.json

VARIABLES
    oPc,            \* where the observation step of main() stands: "idle",
                    \* "fetch" (inside Promise.all), "save" (observe() returned),
                    \* "analyze" (step 2 begins), "failed", "killed"
    snapshotFile,   \* data/market-snapshot.json
    oStart,         \* data/market-snapshot.json as it was when main() was started
    previousSnapshot,
                    \* main: const previousSnapshot = await loadPreviousSnapshot()
    kalshi,         \* fetchKalshiMarkets(): how the call went and what it resolved to
    polymarket,     \* fetchPolymarketMarkets(): likewise
    trends,         \* fetchTrendingTopics(): likewise
    movers          \* observations.movers

VARIABLES
    recommendations,
                    \* analyze: const recommendations = JSON.parse(cleaned)
    oEarlier,       \* what the run before this one observed and saved
    rPc,            \* per overlapping run: where it stands: "idle", "inventory",
                    \* "write-inventory", "log", "write-log", "done"
    rRead,          \* per overlapping run: the array it parsed from the file it
                    \* read last
    rDrafts         \* per overlapping run: the drafts it hands to submit()

obsVars == <<oPc, snapshotFile, oStart, previousSnapshot, kalshi, polymarket,
             trends, movers>>

runVars == <<pc, ci, opportunities, assignments, status, drafts, written,
             files, inventoryFile, decisionsFile, start, calls, error>>

decVars == <<dOpps, dMax, dWeights, dMin, dResult, dDone,
             dMissing, dThrew, dTargets, dCalls, dFirst, configFile>>

\* the scoring response, the earlier observation and the overlapping runs
restVars == <<recommendations, oEarlier, rPc, rRead, rDrafts>>

vars == <<runVars, decVars, obsVars, restVars>>

\* loadConfig() when data/agent-config.json is absent
LoadConfig ==
    [bucketWeights     |-> [educational |-> 50, topical |-> 35, affiliate |-> 15],
     maxArticlesPerRun |-> 3,
     minScoreThreshold |-> 40]

\* JavaScript's `x || d` on a number: 0 is falsy
OrElse(x, d) == IF x = 0 THEN d ELSE x

\* data/agent-config.json: absent, unparseable ("corrupt") or a JSON object;
\* a key of the object is <<>> when the object lacks it and <<value>> otherwise
AbsentConfig ==
    [state |-> "absent", bucketWeights |-> <<>>, maxArticlesPerRun |-> <<>>,
     minScoreThreshold |-> <<>>]

\* loadConfig(): the object it returns, a key it lacks being <<>>
LoadConfigFrom(file) ==
    CASE file.state = "absent" ->
           [bucketWeights     |-> <<LoadConfig.bucketWeights>>,
            maxArticlesPerRun |-> <<LoadConfig.maxArticlesPerRun>>,
            minScoreThreshold |-> <<LoadConfig.minScoreThreshold>>]
      [] file.state = "corrupt" ->
           [bucketWeights     |-> <<[educational |-> 50, topical |-> 35, affiliate |-> 15]>>,
            maxArticlesPerRun |-> <<>>,
            minScoreThreshold |-> <<>>]
      [] file.state = "ok" ->
           [bucketWeights     |-> file.bucketWeights,
            maxArticlesPerRun |-> file.maxArticlesPerRun,
            minScoreThreshold |-> file.minScoreThreshold]

\* mutant: `config.key ?? d`, only undefined falls back
KeyOrNullish(key, d) == IF key = <<>> THEN d ELSE key[1]

\* `config.key || d`: undefined and 0 are falsy
KeyOrElse(key, d) == IF key = <<>> THEN d ELSE OrElse(key[1], d)

\* opportunities.sort((a, b) => b.score - a.score) at the end of analyze()
SortOpportunities(recs) ==
    LET order == SortByScore(recs, [i \in 1..Len(recs) |-> i])
    IN [k \in 1..Len(recs) |-> recs[order[k]]]

\* create(): cleaned.split(/\s+/).length; the empty string splits into [""]
WordCount(content) == IF Len(content) = 0 THEN 1 ELSE Len(content)

\* the text the generation call returns for an assignment: k words; a word
\* tells the assignment and the run it was written for
GeneratedText(a, r, k) == [j \in 1..k |-> <<a.title, r>>]

\* create(): the DraftArticle returned for the generated text
Draft(a, content) ==
    [slug |-> a.slug, bucket |-> a.bucket, category |-> a.category,
     content |-> content, title |-> a.title, wordCount |-> WordCount(content)]

\* submit.ts getContentPath()
BucketDir(bucket) ==
    CASE bucket = "educational" -> "site/content/learn"
      [] bucket = "topical"     -> "site/content/markets"
      [] bucket = "affiliate"   -> "site/content/best"
      [] OTHER                  -> "site/content/markets"

GetContentPath(article) ==
    IF article.bucket = "topical" /\ article.category # ""
    THEN <<BucketDir(article.bucket), article.category, article.slug>>
    ELSE <<BucketDir(article.bucket), article.slug>>

\* mutant: writeDraft() opens the file with the flag 'wx' and leaves an
\* existing file as it is
WriteDraftKeepsExisting(fs, article) ==
    [p \in DOMAIN fs \cup {GetContentPath(article)} |->
        IF p \in DOMAIN fs THEN fs[p] ELSE article.content]

\* submit.ts writeDraft(): writeFileSync(filepath, article.content)
WriteDraft(fs, article) ==
    [p \in DOMAIN fs \cup {GetContentPath(article)} |->
        IF p = GetContentPath(article) THEN article.content ELSE fs[p]]

\* the array a JSON file parses to; [] when it is absent or JSON.parse throws
ReadArray(file) == IF file.state = "ok" THEN file.entries ELSE <<>>

\* mutant: an article whose slug is in the inventory replaces its entry
RECURSIVE FoldInventoryUpserts(_, _, _)
FoldInventoryUpserts(inventory, articles, now) ==
    IF articles = <<>> THEN inventory
    ELSE LET article == Head(articles)
             entry == [slug |-> article.slug, title |-> article.title,
                       bucket |-> article.bucket, category |-> article.category,
                       wordCount |-> article.wordCount, status |-> "draft",
                       createdAt |-> now]
         IN IF \E i \in 1..Len(inventory) : inventory[i].slug = article.slug
            THEN FoldInventoryUpserts(
                     [i \in 1..Len(inventory) |->
                         IF inventory[i].slug = article.slug THEN entry
                         ELSE inventory[i]],
                     Tail(articles), now)
            ELSE FoldInventoryUpserts(Append(inventory, entry), Tail(articles), now)

\* mutant: the `if (inventory.some(...)) continue` line is missing
RECURSIVE FoldInventoryNoCheck(_, _, _)
FoldInventoryNoCheck(inventory, articles, now) ==
    IF articles = <<>> THEN inventory
    ELSE LET article == Head(articles)
         IN FoldInventoryNoCheck(
                Append(inventory,
                       [slug |-> article.slug, title |-> article.title,
                        bucket |-> article.bucket, category |-> article.category,
                        wordCount |-> article.wordCount, status |-> "draft",
                        createdAt |-> now]),
                Tail(articles), now)

\* submit.ts updateInventory(): the loop over the articles
RECURSIVE FoldInventory(_, _, _)
FoldInventory(inventory, articles, now) ==
    IF articles = <<>> THEN inventory
    ELSE LET article == Head(articles)
         IN IF \E i \in 1..Len(inventory) : inventory[i].slug = article.slug
            THEN FoldInventory(inventory, Tail(articles), now)
            ELSE FoldInventory(
                     Append(inventory,
                            [slug |-> article.slug, title |-> article.title,
                             bucket |-> article.bucket, category |-> article.category,
                             wordCount |-> article.wordCount, status |-> "draft",
                             createdAt |-> now]),
                     Tail(articles), now)

\* submit.ts updateInventory(): the array written back to data/inventory.json
UpdatedInventory(file, articles, now) == FoldInventory(ReadArray(file), articles, now)

\* main(): the logEntry of the run
LogEntry(now, opps, asg, drs) ==
    [timestamp |-> now,
     opportunities |-> Len(opps),
     selected |-> [k \in 1..Len(asg) |->
                     [title |-> asg[k].title, bucket |-> asg[k].bucket, score |-> asg[k].score]],
     produced |-> [k \in 1..Len(drs) |->
                     [slug |-> drs[k].slug, bucket |-> drs[k].bucket, wordCount |-> drs[k].wordCount]]]

\* main(): logs.push(logEntry) on the parsed data/decisions.json
AppendedLog(file, entry) == Append(ReadArray(file), entry)


\* main() step 3: loadConfig() and the call of decide()
SelectAssignments(opps) ==
    LET config == LoadConfig
    IN Decide(opps,
              OrElse(config.maxArticlesPerRun, DefaultMaxArticles),
              config.bucketWeights,
              OrElse(config.minScoreThreshold, DefaultMinScore))

(***************************************************************************)
(* The stored files main() finds. main() runs once per process; what one   *)
(* run leaves in data/ and site/content is what the next run starts from.  *)
(* The files are either absent (first run) or as an earlier run left them: *)
(* a run at time Earlier whose scoring call returned r and whose           *)
(* generation calls all returned a one-word text, ended in one of the ways *)
(* a run can end after its first write.                                    *)
(***************************************************************************)
\* new Date() of the earlier run and of this run
Earlier == 0

Now == 1

EmptyStore == [inventory |-> AbsentFile, files |-> <<>>, log |-> AbsentFile]

\* the responses of the scoring call in the earlier run
EarlierResponses ==
    {r \in SeqUpTo(Recommendations, MaxEarlier) :
        \A i, j \in 1..Len(r) : i # j => r[i] # r[j]}

\* the drafts of the earlier run
EarlierDrafts(r) ==
    LET asg == SelectAssignments(SortOpportunities(r))
    IN [k \in 1..Len(asg) |-> Draft(asg[k], GeneratedText(asg[k], Earlier, 1))]

\* submit() step 1, all of it
RECURSIVE WriteDrafts(_, _)
WriteDrafts(fs, articles) ==
    IF articles = <<>> THEN fs
    ELSE WriteDrafts(WriteDraft(fs, Head(articles)), Tail(articles))

\* what the earlier run left behind
StoresAfter(r) ==
    LET ds  == EarlierDrafts(r)
        fs  == WriteDrafts(<<>>, ds)
        inv == UpdatedInventory(AbsentFile, ds, Earlier)
        log == AppendedLog(AbsentFile,
                           LogEntry(Earlier, SortOpportunities(r),
                                    SelectAssignments(SortOpportunities(r)), ds))
    IN IF Len(ds) = 0 THEN {EmptyStore}
       ELSE \* it returned
            { [inventory |-> [state |-> "ok", entries |-> inv], files |-> fs,
               log |-> [state |-> "ok", entries |-> log]],
            \* createGitBranch() threw, or it was killed before the log write
              [inventory |-> [state |-> "ok", entries |-> inv], files |-> fs,
               log |-> AbsentFile],
            \* it was killed, or the write threw, before updateInventory()
              [inventory |-> AbsentFile, files |-> fs, log |-> AbsentFile] }
            \* it was killed inside the write of data/inventory.json
            \cup { [inventory |-> [state |-> "corrupt", entries |-> SubSeq(inv, 1, n)],
                    files |-> fs, log |-> AbsentFile] : n \in 0..Len(inv) }
            \* it was killed inside the write of data/decisions.json
            \cup { [inventory |-> [state |-> "ok", entries |-> inv], files |-> fs,
                    log |-> [state |-> "corrupt", entries |-> SubSeq(log, 1, n)]] :
                   n \in 0..Len(log) }

StoredFiles == UNION {StoresAfter(r) : r \in EarlierResponses}

(***************************************************************************)
(* Init and the steps of a run                                             *)
(***************************************************************************)
InRun == {"analyze", "decide", "create", "write", "inventory", "git", "pr",
          "slack", "log"}

Ended == {"idle", "done", "failed", "killed"}

Settled == {"Produced", "Failed"}

DecideIdle ==
    /\ dOpps = <<>> /\ dMax = 0 /\ dWeights = DefaultWeights
    /\ dMin = DefaultMinScore /\ dResult = <<>> /\ dDone = TRUE
    /\ dMissing = FALSE /\ dThrew = "none" /\ dTargets = <<>>
    /\ dCalls = 0 /\ dFirst = <<>>
    /\ configFile = AbsentConfig

\* what a fetch holds before it has settled
Pending == [status |-> "pending", value |-> <<>>]

\* the value undefined of loadPreviousSnapshot()
Undefined == [defined |-> FALSE, markets |-> <<>>]

\* the observation step is not part of this specification
ObserveIdle ==
    /\ oPc = "idle" /\ snapshotFile = AbsentFile /\ oStart = AbsentFile
    /\ previousSnapshot = Undefined
    /\ kalshi = Pending /\ polymarket = Pending /\ trends = Pending
    /\ movers = <<>>

\* the two overlapping runs
Runs == {1, 2}

\* no run before this one
NoEarlier ==
    [ran |-> FALSE, previous |-> Undefined, markets |-> <<>>,
     kalshi |-> "pending", polymarket |-> "pending", movers |-> <<>>]

RestIdle ==
    /\ recommendations = <<>> /\ oEarlier = NoEarlier
    /\ rPc = [r \in Runs |-> "idle"]
    /\ rRead = [r \in Runs |-> <<>>]
    /\ rDrafts = [r \in Runs |-> <<>>]

Init ==
    /\ pc = "idle" /\ ci \in BOOLEAN
    /\ opportunities = <<>> /\ assignments = <<>> /\ status = <<>>
    /\ calls = <<>> /\ drafts = <<>> /\ written = 0 /\ error = "none"
    /\ start \in StoredFiles
    /\ files = start.files
    /\ inventoryFile = start.inventory /\ decisionsFile = start.log
    /\ DecideIdle /\ ObserveIdle /\ RestIdle

\* main() is started (npm run agent, or the scheduled workflow)
StartRun ==
    /\ pc = "idle"
    /\ pc' = "analyze"
    /\ UNCHANGED <<error, ci, opportunities, assignments, status, calls, drafts,
                   written, files, inventoryFile, decisionsFile, start, decVars, obsVars,
                   restVars>>

\* analyze(): the scoring call answers with a list of recommendations
Analyze ==
    /\ pc = "analyze"
    /\ \E r \in ScorerResponses :
          /\ opportunities' = SortOpportunities(r)
          /\ pc' = IF Len(r) = 0 THEN "done" ELSE "decide"
    /\ UNCHANGED <<error, ci, assignments, status, calls, drafts, written, files,
                   inventoryFile, decisionsFile, start, decVars, obsVars,
                   restVars>>

\* analyze(): the call or JSON.parse throws; catch returns []
AnalyzeFails ==
    /\ pc = "analyze"
    /\ opportunities' = <<>>
    /\ pc' = "done"
    /\ UNCHANGED <<error, ci, assignments, status, calls, drafts, written, files,
                   inventoryFile, decisionsFile, start, decVars, obsVars,
                   restVars>>

\* main() step 3: loadConfig(), decide()
DecideStep ==
    /\ pc = "decide"
    /\ LET a == SelectAssignments(opportunities)
       IN /\ assignments' = a
          /\ status' = [k \in 1..Len(a) |-> "Pending"]
          /\ calls' = [k \in 1..Len(a) |-> 0]
          /\ pc' = IF Len(a) = 0 THEN "done" ELSE "create"
    /\ UNCHANGED <<error, ci, opportunities, drafts, written, files,
                   inventoryFile, decisionsFile, start, decVars, obsVars,
                   restVars>>

\* the assignment the loop of step 4 stands at: the first one not settled
Current == CHOOSE k \in 1..Len(status) :
              /\ status[k] \notin Settled
              /\ \A j \in 1..(k - 1) : status[j] \in Settled

\* mutant: submit() updates the inventory before it writes the drafts
AfterCreateLedgerFirst(k, ds) ==
    IF k < Len(assignments) THEN "create"
    ELSE IF Len(ds) = 0 THEN "done" ELSE "inventory"

\* mutant: the `if (drafts.length === 0) return` of main() is missing
AfterCreateNoReturn(k, ds) ==
    IF k < Len(assignments) THEN "create" ELSE "inventory"

\* where main() goes when the loop of step 4 has settled assignment k
AfterCreate(k, ds) ==
    IF k < Len(assignments) THEN "create"
    ELSE IF Len(ds) = 0 THEN "done" ELSE "write"

\* main() step 4: await create(assignment) is entered
CreateStart ==
    /\ pc = "create" /\ status[Current] = "Pending"
    /\ status' = [status EXCEPT ![Current] = "Generating"]
    /\ calls' = [calls EXCEPT ![Current] = @ + 1]
    /\ UNCHANGED <<pc, error, ci, opportunities, assignments, drafts, written, files,
                   inventoryFile, decisionsFile, start, decVars, obsVars,
                   restVars>>

\* the generation call answers with an empty text, or with a first block
\* that is not text: create() takes '' for it, checks neither the length
\* nor the frontmatter of what it got, and returns a draft as for any text
CreateReturnsMalformed ==
    /\ pc = "create" /\ status[Current] = "Generating"
    /\ drafts' = Append(drafts, Draft(assignments[Current], <<>>))
    /\ status' = [status EXCEPT ![Current] = "Produced"]
    /\ pc' = AfterCreate(Current, drafts')
    /\ UNCHANGED <<error, ci, opportunities, assignments, calls, written, files,
                   inventoryFile, decisionsFile, start, decVars, obsVars,
                   restVars>>

\* create() returns a draft; drafts.push(draft)
CreateReturns ==
    /\ pc = "create" /\ status[Current] = "Generating"
    /\ \E n \in 1..MaxWords :
          drafts' = Append(drafts,
                           Draft(assignments[Current],
                                 GeneratedText(assignments[Current], Now, n)))
    /\ status' = [status EXCEPT ![Current] = "Produced"]
    /\ pc' = AfterCreate(Current, drafts')
    /\ UNCHANGED <<error, ci, opportunities, assignments, calls, written, files,
                   inventoryFile, decisionsFile, start, decVars, obsVars,
                   restVars>>

\* mutant: main() has no try/catch around create(): the throw ends the run
CreateThrowsAborts ==
    /\ pc = "create" /\ status[Current] = "Generating"
    /\ status' = [status EXCEPT ![Current] = "Failed"]
    /\ pc' = "failed"
    /\ UNCHANGED <<error, ci, opportunities, assignments, calls, drafts, written,
                   files, inventoryFile, decisionsFile, start, decVars, obsVars,
                   restVars>>

\* mutant: main() tries a failed assignment once more
CreateThrowsRetries ==
    /\ pc = "create" /\ status[Current] = "Generating"
    /\ status' = [status EXCEPT ![Current] = IF calls[Current] < 2 THEN "Pending"
                                              ELSE "Failed"]
    /\ pc' = IF calls[Current] < 2 THEN "create" ELSE AfterCreate(Current, drafts)
    /\ UNCHANGED <<error, ci, opportunities, assignments, calls, drafts, written,
                   files, inventoryFile, decisionsFile, start, decVars, obsVars,
                   restVars>>

\* create() throws; main() catches, logs and continues with the next one
CreateThrows ==
    /\ pc = "create" /\ status[Current] = "Generating"
    /\ status' = [status EXCEPT ![Current] = "Failed"]
    /\ pc' = AfterCreate(Current, drafts)
    /\ UNCHANGED <<error, ci, opportunities, assignments, calls, drafts, written,
                   files, inventoryFile, decisionsFile, start, decVars, obsVars,
                   restVars>>

\* mutant: submit() adds the Ledger entry of a draft right after its file
WriteDraftStepWithLedger ==
    /\ pc = "write"
    /\ files' = WriteDraft(files, drafts[written + 1])
    /\ inventoryFile' =
          [state |-> "ok",
           entries |-> UpdatedInventory(inventoryFile, <<drafts[written + 1]>>, Now)]
    /\ written' = written + 1
    /\ pc' = IF written + 1 = Len(drafts) THEN "inventory" ELSE "write"
    /\ UNCHANGED <<error, ci, opportunities, assignments, status, calls, drafts,
                   decisionsFile, start, decVars, obsVars,
                   restVars>>

\* submit() step 1: writeDraft(article) for the next article
WriteDraftStep ==
    /\ pc = "write"
    /\ files' = WriteDraft(files, drafts[written + 1])
    /\ written' = written + 1
    /\ pc' = IF written + 1 = Len(drafts) THEN "inventory" ELSE "write"
    /\ UNCHANGED <<error, ci, opportunities, assignments, status, calls, drafts,
                   inventoryFile, decisionsFile, start, decVars, obsVars,
                   restVars>>

\* mutant: a draft whose write throws is skipped and submit() goes on
WriteDraftThrowsSkipsDraft ==
    /\ pc = "write"
    /\ error' = "write"
    /\ written' = written + 1
    /\ pc' = IF written + 1 = Len(drafts) THEN "inventory" ELSE "write"
    /\ UNCHANGED <<ci, opportunities, assignments, status, calls, drafts,
                   files, inventoryFile, decisionsFile, start, decVars, obsVars,
                   restVars>>

\* writeFileSync of a draft throws: submit() and main() have no handler but
\* main()'s catch, which exits 1
WriteDraftThrows ==
    /\ pc = "write"
    /\ pc' = "failed" /\ error' = "write"
    /\ UNCHANGED <<ci, opportunities, assignments, status, calls, drafts,
                   written, files, inventoryFile, decisionsFile, start, decVars, obsVars,
                   restVars>>

\* where submit() goes after updateInventory()
AfterInventory == IF ci THEN "git" ELSE "slack"

\* submit() step 2: updateInventory(articles)
UpdateInventory ==
    /\ pc = "inventory"
    /\ inventoryFile' = [state |-> "ok",
                         entries |-> UpdatedInventory(inventoryFile, drafts, Now)]
    /\ pc' = AfterInventory
    /\ UNCHANGED <<error, ci, opportunities, assignments, status, calls, drafts,
                   written, files, decisionsFile, start, decVars, obsVars,
                   restVars>>

\* writeFileSync of data/inventory.json throws before it wrote anything
UpdateInventoryThrows ==
    /\ pc = "inventory"
    /\ pc' = "failed" /\ error' = "inventory"
    /\ UNCHANGED <<ci, opportunities, assignments, status, calls, drafts,
                   written, files, inventoryFile, decisionsFile, start, decVars, obsVars,
                   restVars>>

\* the process is killed inside writeFileSync of data/inventory.json: the
\* file holds a prefix of the new text, which does not parse
TornInventoryWrite ==
    /\ pc = "inventory"
    /\ \E n \in 0..Len(UpdatedInventory(inventoryFile, drafts, Now)) :
          inventoryFile' =
              [state |-> "corrupt",
               entries |-> SubSeq(UpdatedInventory(inventoryFile, drafts, Now), 1, n)]
    /\ pc' = "killed"
    /\ UNCHANGED <<error, ci, opportunities, assignments, status, calls, drafts,
                   written, files, decisionsFile, start, decVars, obsVars,
                   restVars>>

\* submit() step 3 in CI: createGitBranch() checks out, commits and pushes
CreateGitBranch ==
    /\ pc = "git"
    /\ pc' = "pr"
    /\ UNCHANGED <<error, ci, opportunities, assignments, status, calls, drafts,
                   written, files, inventoryFile, decisionsFile, start, decVars, obsVars,
                   restVars>>

\* a git command fails: createGitBranch() rethrows, main()'s catch exits 1
CreateGitBranchThrows ==
    /\ pc = "git"
    /\ pc' = "failed" /\ error' = "git"
    /\ UNCHANGED <<ci, opportunities, assignments, status, calls, drafts,
                   written, files, inventoryFile, decisionsFile, start, decVars, obsVars,
                   restVars>>

\* createPullRequest(): the pull request is created
CreatePullRequest ==
    /\ pc = "pr"
    /\ pc' = "slack"
    /\ UNCHANGED <<error, ci, opportunities, assignments, status, calls, drafts,
                   written, files, inventoryFile, decisionsFile, start, decVars, obsVars,
                   restVars>>

\* createPullRequest(): no token, a non-OK response or a throw: returns ''
CreatePullRequestFails ==
    /\ pc = "pr"
    /\ pc' = "slack"
    /\ UNCHANGED <<error, ci, opportunities, assignments, status, calls, drafts,
                   written, files, inventoryFile, decisionsFile, start, decVars, obsVars,
                   restVars>>

\* sendSlackNotification(): sent, or skipped without a webhook URL
SendSlackNotification ==
    /\ pc = "slack"
    /\ pc' = "log"
    /\ UNCHANGED <<error, ci, opportunities, assignments, status, calls, drafts,
                   written, files, inventoryFile, decisionsFile, start, decVars, obsVars,
                   restVars>>

\* sendSlackNotification(): fetch throws; the catch logs it
SendSlackNotificationFails ==
    /\ pc = "slack"
    /\ pc' = "log"
    /\ UNCHANGED <<error, ci, opportunities, assignments, status, calls, drafts,
                   written, files, inventoryFile, decisionsFile, start, decVars, obsVars,
                   restVars>>

\* main(): the audit trail: read data/decisions.json, push, write back
AppendLog ==
    /\ pc = "log"
    /\ decisionsFile' =
          [state |-> "ok",
           entries |-> AppendedLog(decisionsFile,
                                   LogEntry(Now, opportunities, assignments, drafts))]
    /\ pc' = "done"
    /\ UNCHANGED <<error, ci, opportunities, assignments, status, calls, drafts,
                   written, files, inventoryFile, start, decVars, obsVars,
                   restVars>>

\* writeFileSync of data/decisions.json throws before it wrote anything
AppendLogThrows ==
    /\ pc = "log"
    /\ pc' = "failed" /\ error' = "log"
    /\ UNCHANGED <<ci, opportunities, assignments, status, calls, drafts,
                   written, files, inventoryFile, decisionsFile, start, decVars, obsVars,
                   restVars>>

\* the process is killed inside writeFileSync of data/decisions.json
TornLogWrite ==
    /\ pc = "log"
    /\ \E n \in 0..(Len(ReadArray(decisionsFile)) + 1) :
          decisionsFile' =
              [state |-> "corrupt",
               entries |-> SubSeq(AppendedLog(decisionsFile,
                                              LogEntry(Now, opportunities,
                                                       assignments, drafts)), 1, n)]
    /\ pc' = "killed"
    /\ UNCHANGED <<error, ci, opportunities, assignments, status, calls, drafts,
                   written, files, inventoryFile, start, decVars, obsVars,
                   restVars>>

\* the process is killed between two steps
Kill ==
    /\ pc \in InRun
    /\ pc' = "killed"
    /\ UNCHANGED <<error, ci, opportunities, assignments, status, calls, drafts,
                   written, files, inventoryFile, decisionsFile, start, decVars, obsVars,
                   restVars>>

\* the steps of a run that is not killed and whose generation calls answer
\* with articles
Step ==
    \/ StartRun \/ Analyze \/ AnalyzeFails \/ DecideStep
    \/ CreateStart \/ CreateReturns \/ CreateThrows
    \/ WriteDraftStep \/ WriteDraftThrows
    \/ UpdateInventory \/ UpdateInventoryThrows
    \/ CreateGitBranch \/ CreateGitBranchThrows
    \/ CreatePullRequest \/ CreatePullRequestFails
    \/ SendSlackNotification \/ SendSlackNotificationFails
    \/ AppendLog \/ AppendLogThrows

Next == Step \/ CreateReturnsMalformed \/ Kill \/ TornInventoryWrite \/ TornLogWrite

Spec == Init /\ [][Next]_vars

\* runs that are not killed: every started call of the generation capability
\* returns or throws, and main() goes on to the next assignment
SpecLive ==
    /\ Init /\ [][Step]_vars
    /\ WF_vars(CreateStart)
    /\ WF_vars(CreateReturns \/ CreateThrows)


(***************************************************************************)
(* The scoring specification: a run whose scoring call answers with a JSON *)
(* array in which the score of a recommendation may be missing or a string *)
(***************************************************************************)
\* longest array the scoring call answers with
MaxScored == 2

\* what the score of a recommendation is in the JSON text: a number, not
\* there (or null), or a string such as "high"
ScoreKinds == {"number", "missing", "text"}

ScoredRecommendations == [rec : Recommendations, kind : ScoreKinds]

\* the arrays JSON.parse returns: no recommendation twice
ScoredResponses ==
    {r \in SeqUpTo(ScoredRecommendations, MaxScored) :
        \A i, j \in 1..Len(r) : i # j => r[i].rec # r[j].rec}

\* mutant: analyze() leaves out the recommendations it cannot print
AnalyzeResultSkipsMalformed(recs) ==
    LET RECURSIVE Numbers(_)
        Numbers(i) ==
            IF i > Len(recs) THEN <<>>
            ELSE IF recs[i].kind = "number"
                 THEN <<recs[i].rec>> \o Numbers(i + 1)
                 ELSE Numbers(i + 1)
    IN SortOpportunities(Numbers(1))

\* analyze() from JSON.parse on: map, sort, and the loop that prints
\* opp.score.toFixed(2), which throws a TypeError for a score that is not a
\* number; the catch returns []
AnalyzeResult(recs) ==
    IF \E i \in 1..Len(recs) : recs[i].kind # "number" THEN <<>>
    ELSE SortOpportunities([i \in 1..Len(recs) |-> recs[i].rec])

AnalyzeInit ==
    /\ pc = "idle" /\ ci \in BOOLEAN
    /\ opportunities = <<>> /\ assignments = <<>> /\ status = <<>>
    /\ calls = <<>> /\ drafts = <<>> /\ written = 0 /\ error = "none"
    /\ start \in StoredFiles
    /\ files = start.files
    /\ inventoryFile = start.inventory /\ decisionsFile = start.log
    /\ DecideIdle /\ ObserveIdle /\ RestIdle

\* analyze(): the scoring call answers with a JSON array
AnalyzeScored ==
    /\ pc = "analyze"
    /\ \E r \in ScoredResponses :
          /\ recommendations' = r
          /\ opportunities' = AnalyzeResult(r)
          /\ pc' = IF Len(AnalyzeResult(r)) = 0 THEN "done" ELSE "decide"
    /\ UNCHANGED <<error, ci, assignments, status, calls, drafts, written, files,
                   inventoryFile, decisionsFile, start, decVars, obsVars,
                   oEarlier, rPc, rRead, rDrafts>>

AnalyzeNext ==
    \/ StartRun \/ AnalyzeScored \/ AnalyzeFails \/ DecideStep
    \/ CreateStart \/ CreateReturns \/ CreateThrows
    \/ WriteDraftStep \/ WriteDraftThrows
    \/ UpdateInventory \/ UpdateInventoryThrows
    \/ CreateGitBranch \/ CreateGitBranchThrows
    \/ CreatePullRequest \/ CreatePullRequestFails
    \/ SendSlackNotification \/ SendSlackNotificationFails
    \/ AppendLog \/ AppendLogThrows

SpecAnalyze == AnalyzeInit /\ [][AnalyzeNext]_vars

(***************************************************************************)
(* The selection specification: decide() called once on bounded inputs     *)
(***************************************************************************)
\* the opportunities handed to decide(): only bucket and score are read
DecideOpportunities == [bucket : Buckets, score : {50, 90}]

\* the minScore values handed to decide(): 0.5 admits both scores, 0.9 one;
\* each is the score of an opportunity
DecideMinScores == {50, 90}

\* the bucketWeights handed to decide()
DecideWeights ==
    { DefaultWeights,
      [educational |-> 50, topical |-> 20, affiliate |-> 15],
      [educational |-> 50, topical |-> 50, affiliate |-> 50],
      [educational |-> 0,  topical |-> 0,  affiliate |-> 0] }

RunIdle ==
    /\ pc = "idle" /\ ci = FALSE
    /\ opportunities = <<>> /\ assignments = <<>> /\ status = <<>>
    /\ calls = <<>> /\ drafts = <<>> /\ written = 0 /\ error = "none"
    /\ files = <<>>
    /\ inventoryFile = AbsentFile /\ decisionsFile = AbsentFile
    /\ start = EmptyStore

DecideInit ==
    /\ dOpps \in SeqUpTo(DecideOpportunities, MaxDecideOpps)
    /\ dMax \in 0..MaxDecideArticles
    /\ dWeights \in DecideWeights
    /\ dMissing \in BOOLEAN
    /\ dMissing => dWeights = DefaultWeights
    /\ dMin \in DecideMinScores
    /\ dResult = <<>> /\ dFirst = <<>> /\ dTargets = <<>>
    /\ dThrew = "none" /\ dCalls = 0
    /\ dDone = FALSE
    /\ configFile = AbsentConfig
    /\ RunIdle /\ ObserveIdle /\ RestIdle

\* reading bucketWeights.educational of an undefined bucketWeights throws a
\* TypeError; decide() gets there only past the early return
DecideThrows(opps, missing, minScore) ==
    missing /\ Len(Viable(opps, minScore)) > 0

\* decide(opportunities, {maxArticles, bucketWeights, minScore}) returns or
\* throws
DecideCall ==
    /\ dCalls = 0
    /\ IF DecideThrows(dOpps, dMissing, dMin)
       THEN /\ dThrew' = "TypeError"
            /\ dResult' = <<>> /\ dTargets' = <<>>
       ELSE /\ dThrew' = "none"
            /\ dResult' = DecideIdx(dOpps, dMax, dWeights, dMin)
            /\ dTargets' = IF Len(Viable(dOpps, dMin)) = 0 THEN <<>>
                            ELSE <<TargetCounts(dMax, dWeights)>>
    /\ dFirst' = [k \in 1..Len(dResult') |-> dOpps[dResult'[k]]]
    /\ dCalls' = 1 /\ dDone' = TRUE
    /\ UNCHANGED <<dOpps, dMax, dWeights, dMin, dMissing, configFile, runVars, obsVars,
                   restVars>>

\* mutant: the earlier call has reversed the caller's array in place
DecideAgainOnReversedInput ==
    /\ dCalls >= 1 /\ dCalls < DecideCalls
    /\ dOpps' = [k \in 1..Len(dOpps) |-> dOpps[Len(dOpps) + 1 - k]]
    /\ IF DecideThrows(dOpps, dMissing, dMin)
       THEN /\ dThrew' = "TypeError"
            /\ dResult' = <<>> /\ dTargets' = <<>>
       ELSE /\ dThrew' = "none"
            /\ dResult' = DecideIdx(dOpps', dMax, dWeights, dMin)
            /\ dTargets' = IF Len(Viable(dOpps, dMin)) = 0 THEN <<>>
                            ELSE <<TargetCounts(dMax, dWeights)>>
    /\ dCalls' = dCalls + 1
    /\ UNCHANGED <<dMax, dWeights, dMin, dMissing, dDone, dFirst, configFile,
                   runVars, obsVars,
                   restVars>>

\* decide() is called again with the same array and the same config: the
\* earlier call left the array (it filters and sorts copies) and
\* DEFAULT_CONFIG (it spreads into a new object) as they were
DecideAgain ==
    /\ dCalls >= 1 /\ dCalls < DecideCalls
    /\ IF DecideThrows(dOpps, dMissing, dMin)
       THEN /\ dThrew' = "TypeError"
            /\ dResult' = <<>> /\ dTargets' = <<>>
       ELSE /\ dThrew' = "none"
            /\ dResult' = DecideIdx(dOpps, dMax, dWeights, dMin)
            /\ dTargets' = IF Len(Viable(dOpps, dMin)) = 0 THEN <<>>
                            ELSE <<TargetCounts(dMax, dWeights)>>
    /\ dCalls' = dCalls + 1
    /\ UNCHANGED <<dOpps, dMax, dWeights, dMin, dMissing, dDone, dFirst, configFile,
                   runVars, obsVars,
                   restVars>>

SpecDecide == DecideInit /\ [][DecideCall]_vars

SpecDecideAgain == DecideInit /\ [][DecideCall \/ DecideAgain]_vars

(***************************************************************************)
(* The configuration specification: step 3 of main(), loadConfig() on a    *)
(* stored data/agent-config.json and the call of decide() with what it     *)
(* returned.                                                               *)
(***************************************************************************)
\* longest list of opportunities analyze() hands to step 3
MaxConfigOpps == 4

\* the opportunities analyze() returns: scores 0.2, 0.5, 0.9
ConfigOpportunities == [bucket : Buckets, score : {20, 50, 90}]

\* the JSON objects data/agent-config.json can hold
ConfigObjects ==
    [state : {"ok"},
     bucketWeights : {<<>>, <<DefaultWeights>>,
                      <<[educational |-> 50, topical |-> 20, affiliate |-> 15]>>},
     maxArticlesPerRun : {<<>>, <<0>>, <<2>>},
     minScoreThreshold : {<<>>, <<0>>, <<50>>, <<90>>}]

\* data/agent-config.json as main() finds it
ConfigFiles ==
    {AbsentConfig, [AbsentConfig EXCEPT !.state = "corrupt"]} \cup ConfigObjects

\* main() gets to step 3 with a non-empty list, which analyze() has sorted
\* by descending score
ConfigInit ==
    /\ configFile \in ConfigFiles
    /\ dOpps \in SeqUpTo(ConfigOpportunities, MaxConfigOpps)
    /\ Len(dOpps) > 0
    /\ \A k \in 1..(Len(dOpps) - 1) : dOpps[k].score >= dOpps[k + 1].score
    /\ dMax = 0 /\ dWeights = DefaultWeights /\ dMin = DefaultMinScore
    /\ dMissing = FALSE
    /\ dResult = <<>> /\ dFirst = <<>> /\ dTargets = <<>>
    /\ dThrew = "none" /\ dCalls = 0
    /\ dDone = FALSE
    /\ RunIdle /\ ObserveIdle /\ RestIdle

\* main() step 3: loadConfig(), then decide(opportunities, {maxArticles,
\* bucketWeights, minScore}); a TypeError of decide() ends in main()'s catch
\* and process.exit(1)
LoadConfigAndDecide ==
    /\ dCalls = 0
    /\ LET config == LoadConfigFrom(configFile)
       IN /\ dMax' = KeyOrElse(config.maxArticlesPerRun, DefaultMaxArticles)
          /\ dMissing' = (config.bucketWeights = <<>>)
          /\ dWeights' = IF config.bucketWeights = <<>> THEN dWeights
                         ELSE config.bucketWeights[1]
          /\ dMin' = KeyOrElse(config.minScoreThreshold, DefaultMinScore)
    /\ IF DecideThrows(dOpps, dMissing', dMin')
       THEN /\ dThrew' = "TypeError"
            /\ dResult' = <<>> /\ dTargets' = <<>>
       ELSE /\ dThrew' = "none"
            /\ dResult' = DecideIdx(dOpps, dMax', dWeights', dMin')
            /\ dTargets' = IF Len(Viable(dOpps, dMin')) = 0 THEN <<>>
                            ELSE <<TargetCounts(dMax', dWeights')>>
    /\ dFirst' = [k \in 1..Len(dResult') |-> dOpps[dResult'[k]]]
    /\ dCalls' = 1 /\ dDone' = TRUE
    /\ UNCHANGED <<dOpps, configFile, runVars, obsVars,
                   restVars>>

SpecConfig == ConfigInit /\ [][LoadConfigAndDecide]_vars

(***************************************************************************)
(* The observation step: agent/observe.ts and step 1 of main()             *)
(* A response of a market API is modelled by the MarketData list that the  *)
(* filter and map of the fetch function make of it.                        *)
(***************************************************************************)
\* most markets in the response of one provider
MaxMarkets == 1
\* most headlines in the feed
MaxHeadlines == 1

\* yes_price values, in cents: 0.30, 0.40, 0.50
Prices == {30, 40, 50}

MarketIds == {"m1"}

Headlines == {"h1"}

\* `change > 0.10`, in cents
MoverThreshold == 10

MarketsOf(platform) == [platform : {platform}, id : MarketIds, yes_price : Prices]

\* yes_price and 0.10 are IEEE doubles: the double nearest to c / 100 is
\* (c * 2^59 + DoubleErr(c) / 100) / (100 * 2^59)
DoubleErr(c) ==
    CASE c = 10 -> 320
      [] c = 30 -> -640
      [] c = 40 -> 1280
      [] c = 50 -> 0

\* Math.abs(a - b) > 0.10 on doubles; the subtraction of two of these prices
\* is exact, so the rounding errors of the operands decide a difference of
\* ten cents
ChangeExceeds(a, b) ==
    LET hi == Max(a, b)
        lo == Min(a, b)
    IN \/ hi - lo > MoverThreshold
       \/ /\ hi - lo = MoverThreshold
          /\ DoubleErr(hi) - DoubleErr(lo) > DoubleErr(MoverThreshold)

\* mutant: the map of the previous snapshot is keyed by id alone
PreviousIndexById(previous, m) ==
    LET same == {i \in 1..Len(previous) : previous[i].id = m.id}
    IN IF same = {} THEN 0 ELSE CHOOSE i \in same : \A k \in same : k <= i

\* previousMap.get(`${m.platform}:${m.id}`): new Map(entries) keeps the last
\* entry of a key; 0 when the key is not in the map
PreviousIndex(previous, m) ==
    LET same == {i \in 1..Len(previous) :
                    previous[i].platform = m.platform /\ previous[i].id = m.id}
    IN IF same = {} THEN 0 ELSE CHOOSE i \in same : \A k \in same : k <= i

\* currentMarkets.filter(...)
RECURSIVE FilterMovers(_, _)
FilterMovers(current, previous) ==
    IF current = <<>> THEN <<>>
    ELSE LET m == Head(current)
             i == PreviousIndex(previous, m)
         IN IF i # 0 /\ ChangeExceeds(m.yes_price, previous[i].yes_price)
            THEN <<m>> \o FilterMovers(Tail(current), previous)
            ELSE FilterMovers(Tail(current), previous)

\* mutant: without a previous snapshot every market is a mover
DetectMoversColdAll(currentMarkets, previous) ==
    IF ~previous.defined THEN currentMarkets
    ELSE FilterMovers(currentMarkets, previous.markets)

\* detectMovers()
DetectMovers(currentMarkets, previous) ==
    IF ~previous.defined THEN <<>>
    ELSE FilterMovers(currentMarkets, previous.markets)

\* loadPreviousSnapshot(): undefined when the file is absent or JSON.parse throws
LoadPreviousSnapshot(file) ==
    IF file.state = "ok" THEN [defined |-> TRUE, markets |-> file.entries]
    ELSE Undefined

\* how a call of a market API can go: fetch() rejects ("network"), the
\* response is not OK ("status"), or it is OK and carries markets
MarketResponses(platform) ==
    { [kind |-> "network", markets |-> <<>>], [kind |-> "status", markets |-> <<>>] }
    \cup { [kind |-> "ok", markets |-> ms] : ms \in SeqUpTo(MarketsOf(platform), MaxMarkets) }

\* fetchKalshiMarkets(), fetchPolymarketMarkets(): what the promise resolves to
FetchMarkets(response) ==
    IF response.kind = "ok" THEN response.markets ELSE <<>>

\* how the call of the news feed can go; `titles` are the <title> elements
\* of the body that pass the filter, which an error page has as well
TrendResponses ==
    { [kind |-> "network", titles |-> <<>>] }
    \cup { [kind |-> k, titles |-> ts] :
              k \in {"status", "ok"}, ts \in SeqUpTo(Headlines, MaxHeadlines) }

\* fetchTrendingTopics(): response.ok is not looked at
FetchTrendingTopics(response) ==
    IF response.kind = "network" THEN <<>> ELSE response.titles

\* [...observations.kalshiMarkets, ...observations.polymarketMarkets]
AllMarkets == kalshi.value \o polymarket.value

\* the snapshots an earlier run can have saved
EarlierSnapshots ==
    { k \o p : k \in SeqUpTo(MarketsOf("kalshi"), MaxMarkets),
               p \in SeqUpTo(MarketsOf("polymarket"), MaxMarkets) }

\* data/market-snapshot.json as main() finds it: absent (first run), saved by
\* an earlier run, or left by an earlier run that was killed inside the write
StoredSnapshots ==
    {AbsentFile}
    \cup { [state |-> "ok", entries |-> e] : e \in EarlierSnapshots }
    \cup UNION { { [state |-> "corrupt", entries |-> SubSeq(e, 1, n)] :
                      n \in 0..Len(e) } : e \in EarlierSnapshots }

ObserveInit ==
    /\ oPc = "idle"
    /\ oStart \in StoredSnapshots
    /\ snapshotFile = oStart
    /\ previousSnapshot = Undefined
    /\ kalshi = Pending /\ polymarket = Pending /\ trends = Pending
    /\ movers = <<>>
    /\ RunIdle /\ DecideIdle /\ RestIdle

\* main() step 1: loadPreviousSnapshot(), then observe() starts the three fetches
ObserveStart ==
    /\ oPc = "idle"
    /\ previousSnapshot' = LoadPreviousSnapshot(snapshotFile)
    /\ oPc' = "fetch"
    /\ UNCHANGED <<snapshotFile, oStart, kalshi, polymarket, trends, movers,
                   runVars, decVars,
                   restVars>>

\* the promise of fetchKalshiMarkets() settles
FetchKalshiMarkets ==
    /\ oPc = "fetch" /\ kalshi.status = "pending"
    /\ \E response \in MarketResponses("kalshi") :
          kalshi' = [status |-> response.kind, value |-> FetchMarkets(response)]
    /\ UNCHANGED <<oPc, snapshotFile, oStart, previousSnapshot, polymarket,
                   trends, movers, runVars, decVars,
                   restVars>>

\* the promise of fetchPolymarketMarkets() settles
FetchPolymarketMarkets ==
    /\ oPc = "fetch" /\ polymarket.status = "pending"
    /\ \E response \in MarketResponses("polymarket") :
          polymarket' = [status |-> response.kind, value |-> FetchMarkets(response)]
    /\ UNCHANGED <<oPc, snapshotFile, oStart, previousSnapshot, kalshi,
                   trends, movers, runVars, decVars,
                   restVars>>

\* the promise of fetchTrendingTopics() settles
FetchTrends ==
    /\ oPc = "fetch" /\ trends.status = "pending"
    /\ \E response \in TrendResponses :
          trends' = [status |-> response.kind, value |-> FetchTrendingTopics(response)]
    /\ UNCHANGED <<oPc, snapshotFile, oStart, previousSnapshot, kalshi,
                   polymarket, movers, runVars, decVars,
                   restVars>>

\* mutant: observe() goes on as soon as both market lists are there
ObserveReturnsEarly ==
    /\ oPc = "fetch"
    /\ kalshi.status # "pending" /\ polymarket.status # "pending"
    /\ movers' = DetectMovers(AllMarkets, previousSnapshot)
    /\ oPc' = "save"
    /\ UNCHANGED <<snapshotFile, oStart, previousSnapshot, kalshi, polymarket,
                   trends, runVars, decVars,
                   restVars>>

\* Promise.all has resolved: detectMovers(), and observe() returns
ObserveReturns ==
    /\ oPc = "fetch"
    /\ kalshi.status # "pending" /\ polymarket.status # "pending"
    /\ trends.status # "pending"
    /\ movers' = DetectMovers(AllMarkets, previousSnapshot)
    /\ oPc' = "save"
    /\ UNCHANGED <<snapshotFile, oStart, previousSnapshot, kalshi, polymarket,
                   trends, runVars, decVars,
                   restVars>>

\* saveSnapshot(allMarkets): writeFileSync onto data/market-snapshot.json
SaveSnapshot ==
    /\ oPc = "save"
    /\ snapshotFile' = [state |-> "ok", entries |-> AllMarkets]
    /\ oPc' = "analyze"
    /\ UNCHANGED <<oStart, previousSnapshot, kalshi, polymarket, trends, movers,
                   runVars, decVars,
                   restVars>>

\* mkdirSync or writeFileSync throws before anything is written: main()'s
\* catch exits 1
SaveSnapshotThrows ==
    /\ oPc = "save"
    /\ oPc' = "failed"
    /\ UNCHANGED <<snapshotFile, oStart, previousSnapshot, kalshi, polymarket,
                   trends, movers, runVars, decVars,
                   restVars>>

\* the process is killed inside writeFileSync: the file was truncated on
\* open and holds a prefix of the new text
TornSnapshotWrite ==
    /\ oPc = "save"
    /\ \E n \in 0..Len(AllMarkets) :
          snapshotFile' = [state |-> "corrupt", entries |-> SubSeq(AllMarkets, 1, n)]
    /\ oPc' = "killed"
    /\ UNCHANGED <<oStart, previousSnapshot, kalshi, polymarket, trends, movers,
                   runVars, decVars,
                   restVars>>

\* the process is killed between two steps of the observation
ObserveKill ==
    /\ oPc \in {"fetch", "save"}
    /\ oPc' = "killed"
    /\ UNCHANGED <<snapshotFile, oStart, previousSnapshot, kalshi, polymarket,
                   trends, movers, runVars, decVars,
                   restVars>>

ObserveNext ==
    \/ ObserveStart \/ FetchKalshiMarkets \/ FetchPolymarketMarkets \/ FetchTrends
    \/ ObserveReturns \/ SaveSnapshot \/ SaveSnapshotThrows
    \/ TornSnapshotWrite \/ ObserveKill

SpecObserve == ObserveInit /\ [][ObserveNext]_vars

(***************************************************************************)
(* Two runs in a row: step 1 of main() in a run that is not killed, and    *)
(* the next run of the schedule, which finds the snapshot this one saved.  *)
(* Each provider lists a market once, in its own order.                    *)
(***************************************************************************)
\* most markets in the response of one provider
MaxAgainMarkets == 1

\* the markets a provider has, in its listing order
IdRank == [m1 |-> 1, m2 |-> 2]

\* yes_price values, in cents: 0.30 and 0.50
AgainPrices == {30, 50}

AgainMarketsOf(platform) ==
    [platform : {platform}, id : DOMAIN IdRank, yes_price : AgainPrices]

AgainLists(platform) ==
    {l \in SeqUpTo(AgainMarketsOf(platform), MaxAgainMarkets) :
        \A i, j \in 1..Len(l) : i < j => IdRank[l[i].id] < IdRank[l[j].id]}

\* how a call of a market API can go: fetch() rejects, or the response
\* carries markets
AgainResponses(platform) ==
    { [kind |-> "network", markets |-> <<>>] }
    \cup { [kind |-> "ok", markets |-> l] : l \in AgainLists(platform) }

\* how the call of the news feed can go
AgainTrendResponses ==
    { [kind |-> "network", titles |-> <<>>], [kind |-> "ok", titles |-> <<"h1">>] }

\* data/market-snapshot.json as the first of the two runs finds it
AgainSnapshots ==
    {AbsentFile}
    \cup { [state |-> "ok", entries |-> k \o p] :
              k \in AgainLists("kalshi"), p \in AgainLists("polymarket") }

\* mutant: saveSnapshot() leaves a snapshot that is there as it is
SavedSnapshotOnlyFirst(file, k, p) ==
    IF file.state = "ok" THEN file
    ELSE [state |-> "ok", entries |-> k.value \o p.value]

\* mutant: the markets of a provider whose fetch failed are carried over
\* from the snapshot that was there
SavedSnapshotKeepsFailed(file, k, p) ==
    LET Kept(platform) ==
            LET idx == {i \in 1..Len(ReadArray(file)) :
                           ReadArray(file)[i].platform = platform}
                RECURSIVE From(_)
                From(i) == IF i > Len(ReadArray(file)) THEN <<>>
                           ELSE IF i \in idx THEN <<ReadArray(file)[i]>> \o From(i + 1)
                           ELSE From(i + 1)
            IN From(1)
    IN [state |-> "ok",
        entries |-> (IF k.status = "ok" THEN k.value ELSE Kept("kalshi"))
                    \o (IF p.status = "ok" THEN p.value ELSE Kept("polymarket"))]

\* main(): saveSnapshot([...kalshiMarkets, ...polymarketMarkets]) onto the
\* file that was there
SavedSnapshot(file, k, p) == [state |-> "ok", entries |-> k.value \o p.value]

ObserveAgainInit ==
    /\ oPc = "idle"
    /\ oStart \in AgainSnapshots
    /\ snapshotFile = oStart
    /\ previousSnapshot = Undefined
    /\ kalshi = Pending /\ polymarket = Pending /\ trends = Pending
    /\ movers = <<>>
    /\ RunIdle /\ DecideIdle /\ RestIdle

\* main() step 1, all of it: loadPreviousSnapshot(), observe() with its three
\* fetches and detectMovers(), saveSnapshot()
ObserveAndSave ==
    /\ oPc = "idle"
    /\ previousSnapshot' = LoadPreviousSnapshot(snapshotFile)
    /\ \E k \in AgainResponses("kalshi"), p \in AgainResponses("polymarket"),
          t \in AgainTrendResponses :
          /\ kalshi' = [status |-> k.kind, value |-> FetchMarkets(k)]
          /\ polymarket' = [status |-> p.kind, value |-> FetchMarkets(p)]
          /\ trends' = [status |-> t.kind, value |-> FetchTrendingTopics(t)]
    /\ movers' = DetectMovers(kalshi'.value \o polymarket'.value, previousSnapshot')
    /\ snapshotFile' = SavedSnapshot(snapshotFile, kalshi', polymarket')
    /\ oPc' = "analyze"
    /\ UNCHANGED <<oStart, runVars, decVars, oEarlier, recommendations, rPc, rRead,
                   rDrafts>>

\* the run ends, whatever its later steps did (none of them touches the
\* snapshot), and the schedule starts the next run
NextRunStarts ==
    /\ oPc = "analyze" /\ ~oEarlier.ran
    /\ oEarlier' = [ran |-> TRUE, previous |-> previousSnapshot,
                    markets |-> AllMarkets, kalshi |-> kalshi.status,
                    polymarket |-> polymarket.status, movers |-> movers]
    /\ oPc' = "idle"
    /\ oStart' = snapshotFile
    /\ previousSnapshot' = Undefined
    /\ kalshi' = Pending /\ polymarket' = Pending /\ trends' = Pending
    /\ movers' = <<>>
    /\ UNCHANGED <<snapshotFile, runVars, decVars, recommendations, rPc, rRead,
                   rDrafts>>

SpecObserveAgain == ObserveAgainInit /\ [][ObserveAndSave \/ NextRunStarts]_vars

(***************************************************************************)
(* Two runs at once: two processes of main() that both have drafts, from   *)
(* updateInventory() of submit() to the write of data/decisions.json. A    *)
(* process reads a file and writes it back in two system calls, and the    *)
(* other process can run between them.                                     *)
(***************************************************************************)
\* most drafts of one of the two runs
MaxRaceDrafts == 1

\* what the two runs were assigned
RaceAssignments == {a \in Recommendations : a.title \in {"T1", "T2", "T4"}}

\* new Date() in run r: the second run is started after the first
RunTime(r) == Now + r - 1

\* the drafts a run hands to submit(): one per assignment, none twice
RaceDrafts(r) ==
    {[k \in 1..Len(as) |-> Draft(as[k], GeneratedText(as[k], RunTime(r), 1))] :
        as \in {s \in SeqUpTo(RaceAssignments, MaxRaceDrafts) :
                  /\ Len(s) > 0
                  /\ \A i, j \in 1..Len(s) : i # j => s[i] # s[j]}}

\* the assignments the drafts of a run were written for
AssignedTo(ds) ==
    [k \in 1..Len(ds) |-> CHOOSE a \in RaceAssignments : a.title = ds[k].title]

\* mutant: updateInventory() reads the file again when it writes
InventoryToWriteRereads(file, inventory, articles, now) ==
    FoldInventory(ReadArray(file), articles, now)

\* updateInventory(): the array it writes, made of the array it parsed
InventoryToWrite(file, inventory, articles, now) ==
    FoldInventory(inventory, articles, now)

RaceInit ==
    /\ pc = "idle" /\ ci = FALSE
    /\ opportunities = <<>> /\ assignments = <<>> /\ status = <<>>
    /\ calls = <<>> /\ drafts = <<>> /\ written = 0 /\ error = "none"
    /\ start \in StoredFiles
    /\ files = start.files
    /\ inventoryFile = start.inventory /\ decisionsFile = start.log
    /\ rPc = [r \in Runs |-> "inventory"]
    /\ rRead = [r \in Runs |-> <<>>]
    /\ rDrafts \in [Runs -> RaceDrafts(1) \cup RaceDrafts(2)]
    /\ \A r \in Runs : rDrafts[r] \in RaceDrafts(r)
    /\ recommendations = <<>> /\ oEarlier = NoEarlier
    /\ DecideIdle /\ ObserveIdle

\* updateInventory() of run r: existsSync, readFileSync, JSON.parse
ReadInventory(r) ==
    /\ rPc[r] = "inventory"
    /\ rRead' = [rRead EXCEPT ![r] = ReadArray(inventoryFile)]
    /\ rPc' = [rPc EXCEPT ![r] = "write-inventory"]
    /\ UNCHANGED <<runVars, decVars, obsVars, recommendations, oEarlier, rDrafts>>

\* updateInventory() of run r: the loop over the articles and writeFileSync
WriteInventory(r) ==
    /\ rPc[r] = "write-inventory"
    /\ inventoryFile' =
          [state |-> "ok",
           entries |-> InventoryToWrite(inventoryFile, rRead[r], rDrafts[r], RunTime(r))]
    /\ rPc' = [rPc EXCEPT ![r] = "log"]
    /\ UNCHANGED <<pc, ci, opportunities, assignments, status, drafts, written,
                   files, decisionsFile, start, calls, error,
                   decVars, obsVars, recommendations, oEarlier, rRead, rDrafts>>

\* main() of run r, after submit() returned: existsSync, readFileSync,
\* JSON.parse of data/decisions.json
ReadLog(r) ==
    /\ rPc[r] = "log"
    /\ rRead' = [rRead EXCEPT ![r] = ReadArray(decisionsFile)]
    /\ rPc' = [rPc EXCEPT ![r] = "write-log"]
    /\ UNCHANGED <<runVars, decVars, obsVars, recommendations, oEarlier, rDrafts>>

\* main() of run r: logs.push(logEntry) and writeFileSync
WriteLog(r) ==
    /\ rPc[r] = "write-log"
    /\ decisionsFile' =
          [state |-> "ok",
           entries |-> Append(rRead[r],
                              LogEntry(RunTime(r), AssignedTo(rDrafts[r]),
                                       AssignedTo(rDrafts[r]), rDrafts[r]))]
    /\ rPc' = [rPc EXCEPT ![r] = "done"]
    /\ UNCHANGED <<pc, ci, opportunities, assignments, status, drafts, written,
                   files, inventoryFile, start, calls, error,
                   decVars, obsVars, recommendations, oEarlier, rRead, rDrafts>>

RaceNext ==
    \E r \in Runs :
        ReadInventory(r) \/ WriteInventory(r) \/ ReadLog(r) \/ WriteLog(r)

SpecRace == RaceInit /\ [][RaceNext]_vars

(***************************************************************************)
(* Properties                                                              *)
(***************************************************************************)
\* the selected indices of a bucket
InBucket(opps, sel, b) == {k \in 1..Len(sel) : opps[sel[k]].bucket = b}

\* C9. Allocation totality: whenever at least one bucket has a nonzero
\* weight, decide() returns exactly min(maxArticles, number of opportunities
\* with score >= minScore) assignments.
AllocationTotality ==
    (dDone /\ ~dMissing /\ \E b \in Buckets : dWeights[b] # 0)
        => Len(dResult) = Min(dMax, Len(Viable(dOpps, dMin)))

\* C9 witness: a call in which the targets of the first pass leave room and
\* the second pass fills it, and fewer opportunities are viable than given
AllocationTotalityWitness ==
    /\ dDone /\ ~dMissing /\ \E b \in Buckets : dWeights[b] # 0
    /\ Len(dResult) = dMax /\ dMax = MaxDecideArticles
    /\ Len(Viable(dOpps, dMin)) < Len(dOpps)
    /\ Len(FirstPass(dOpps, Viable(dOpps, dMin),
                     TargetCounts(dMax, dWeights), dMax)) < Len(dResult)

\* C10 as claimed. Quota monotonicity: for every bucket, decide() with
\* maxArticles + 1 selects at least as many items of the bucket as decide()
\* with maxArticles.
QuotaMonotonicity ==
    (dDone /\ ~dMissing) => \A b \in Buckets :
                Cardinality(InBucket(dOpps, DecideIdx(dOpps, dMax + 1, dWeights, dMin), b))
                    >= Cardinality(InBucket(dOpps, dResult, b))

\* C10 as amended. Raising maxArticles by one never shrinks the selection as
\* a whole, and it never shrinks what the first pass takes from the
\* educational and from the topical bucket.
TotalMonotonicity ==
    (dDone /\ ~dMissing) =>
        /\ Len(DecideIdx(dOpps, dMax + 1, dWeights, dMin)) >= Len(dResult)
        /\ LET viable == Viable(dOpps, dMin)
               first(n) == FirstPass(dOpps, viable, TargetCounts(n, dWeights), n)
               more == first(dMax + 1)
               less == first(dMax)
           IN \A b \in {"educational", "topical"} :
                 Cardinality(InBucket(dOpps, more, b))
                    >= Cardinality(InBucket(dOpps, less, b))

\* C10 witness: a call where one more article changes the selection and
\* where a bucket loses an item to the first pass of the larger call
TotalMonotonicityWitness ==
    /\ dDone /\ ~dMissing /\ dMax >= 1
    /\ Len(DecideIdx(dOpps, dMax + 1, dWeights, dMin)) = Len(dResult) + 1
    /\ \E b \in Buckets :
          Cardinality(InBucket(dOpps, DecideIdx(dOpps, dMax + 1, dWeights, dMin), b))
              < Cardinality(InBucket(dOpps, dResult, b))


\* the opportunities with score >= minScore of a bucket
ViableIn(b) == {i \in Range(Viable(dOpps, dMin)) : dOpps[i].bucket = b}

\* a call with the example's arguments that got as far as targetCounts
ExampleCall ==
    /\ dDone /\ ~dMissing /\ dMax = 3 /\ dWeights = DefaultWeights
    /\ Len(Viable(dOpps, dMin)) > 0

\* C13 as claimed. With maxArticles 3 and weights 0.5 / 0.35 / 0.15 the
\* target counts are educational 2, topical 1, affiliate 1.
TargetCountsAsClaimed ==
    ExampleCall =>
        dTargets = <<[educational |-> 2, topical |-> 1, affiliate |-> 1]>>

\* C13 as amended. With maxArticles 3 and weights 0.5 / 0.35 / 0.15 the
\* target counts are educational 2, topical 1, affiliate 0: 3 x 0.15 rounds
\* to 0 and the floor of the affiliate bucket is 0.
TargetCountsExample ==
    ExampleCall =>
        dTargets = <<[educational |-> 2, topical |-> 1, affiliate |-> 0]>>

\* C13 witness: decide() was called with the example's arguments and
\* computed its targets
TargetCountsExampleWitness ==
    ExampleCall /\ Len(dTargets) = 1 /\ Len(dResult) = 3

\* C14. With maxArticles 3, weights 0.5 / 0.35 / 0.15 and at least two
\* educational, one topical and one affiliate opportunity with score >=
\* minScore, decide() returns exactly two educational and one topical
\* opportunity and no affiliate one.
HardCapInPriorityOrder ==
    (/\ ExampleCall
     /\ Cardinality(ViableIn("educational")) >= 2
     /\ Cardinality(ViableIn("topical")) >= 1
     /\ Cardinality(ViableIn("affiliate")) >= 1)
        => /\ Cardinality(InBucket(dOpps, dResult, "educational")) = 2
           /\ Cardinality(InBucket(dOpps, dResult, "topical")) = 1
           /\ Cardinality(InBucket(dOpps, dResult, "affiliate")) = 0

\* C14 witness: such a call in which the affiliate opportunity outscores
\* every educational and topical one
HardCapInPriorityOrderWitness ==
    /\ ExampleCall
    /\ Cardinality(ViableIn("educational")) >= 2
    /\ Cardinality(ViableIn("topical")) >= 1
    /\ \E a \in ViableIn("affiliate") :
          \A i \in ViableIn("educational") \cup ViableIn("topical") :
              dOpps[a].score > dOpps[i].score
    /\ Len(dResult) = 3

MinimumScoreAdmission ==
    (dDone /\ ~dMissing) =>
        /\ \A k \in 1..Len(dResult) : dOpps[dResult[k]].score >= dMin
        /\ Len(dResult) < dMax =>
              Range(dResult) = {i \in 1..Len(dOpps) : dOpps[i].score >= dMin}

\* C21 witness: a call that left capacity unused, selected an opportunity
\* whose score is minScore and left out one below it
MinimumScoreAdmissionWitness ==
    /\ dDone /\ ~dMissing /\ Len(dResult) < dMax
    /\ \E k \in 1..Len(dResult) : dOpps[dResult[k]].score = dMin
    /\ \E i \in 1..Len(dOpps) : dOpps[i].score < dMin

\* the opportunities of the call with score >= minScore, and those of a bucket
Admitted == {i \in 1..Len(dOpps) : dOpps[i].score >= dMin}

AdmittedIn(b) == {i \in Admitted : dOpps[i].bucket = b}

\* the place of i among S in descending score order, equal scores in input order
RankIn(S, i) ==
    1 + Cardinality({j \in S : \/ dOpps[j].score > dOpps[i].score
                               \/ dOpps[j].score = dOpps[i].score /\ j < i})

\* max(floor, round(maxTotal x weight)) with floor 1 for educational
TargetOf(b) ==
    Max(IF b = "educational" THEN 1 ELSE 0, (dMax * dWeights[b] + 50) \div 100)

\* min(target, items available, capacity left) for the three buckets in order
TakenEducational ==
    Min(TargetOf("educational"), Min(Cardinality(AdmittedIn("educational")), dMax))

TakenTopical ==
    Min(TargetOf("topical"),
        Min(Cardinality(AdmittedIn("topical")), dMax - TakenEducational))

TakenAffiliate ==
    Min(TargetOf("affiliate"),
        Min(Cardinality(AdmittedIn("affiliate")),
            dMax - TakenEducational - TakenTopical))

\* what the first pass of the call selected
PhaseA == FirstPass(dOpps, Viable(dOpps, dMin), TargetCounts(dMax, dWeights), dMax)

\* C25. Phase A: the result of decide() starts with the first
\* min(target, available, capacity left) educational opportunities in
\* descending score order (equal scores in input order), then likewise the
\* topical and then the affiliate ones.
PhaseAOfAllocation ==
    (dDone /\ ~dMissing /\ Admitted # {}) =>
        LET pa == PhaseA
            e  == TakenEducational
            t  == TakenTopical
            a  == TakenAffiliate
            ae == AdmittedIn("educational")
            at == AdmittedIn("topical")
            aa == AdmittedIn("affiliate")
        IN /\ Len(pa) = e + t + a
           /\ Len(dResult) >= Len(pa)
           /\ SubSeq(dResult, 1, Len(pa)) = pa
           /\ \A k \in 1..Len(pa) :
                 IF k <= e
                 THEN pa[k] \in ae /\ RankIn(ae, pa[k]) = k
                 ELSE IF k <= e + t
                 THEN pa[k] \in at /\ RankIn(at, pa[k]) = k - e
                 ELSE pa[k] \in aa /\ RankIn(aa, pa[k]) = k - e - t

\* C25 witness: a call in which Phase A took two educational opportunities,
\* the later and higher-scoring one first, and in which the topical bucket
\* stopped short of its target and of its items because maxArticles was reached
PhaseAOfAllocationWitness ==
    /\ dDone /\ ~dMissing /\ dMax >= 2
    /\ TakenEducational >= 2
    /\ PhaseA[1] > PhaseA[2]
    /\ TakenTopical >= 1
    /\ TakenTopical < Min(TargetOf("topical"), Cardinality(AdmittedIn("topical")))

\* what the second pass of the call selected, and what it could select from
PhaseB == SubSeq(dResult, Len(PhaseA) + 1, Len(dResult))

Spillover == Admitted \ Range(PhaseA)

\* C26. Phase B: when Phase A selected fewer than maxArticles, the result
\* goes on with the highest-scoring opportunities with score >= minScore
\* that Phase A did not select, whatever their bucket, in descending score
\* order (equal scores in input order), until maxArticles is reached or none
\* is left; no opportunity left out outscores one selected in Phase B.
PhaseBOfAllocation ==
    (dDone /\ ~dMissing /\ Admitted # {}) =>
        LET pa   == PhaseA
            pb   == SubSeq(dResult, Len(pa) + 1, Len(dResult))
            rest == Admitted \ Range(pa)
            out  == Admitted \ Range(dResult)
        IN /\ Len(pb) = Min(Max(0, dMax - Len(pa)), Cardinality(rest))
           /\ \A k \in 1..Len(pb) :
                 /\ pb[k] \in rest
                 /\ RankIn(rest, pb[k]) = k
                 /\ \A u \in out : dOpps[u].score <= dOpps[pb[k]].score

\* C26 witness: Phase B took an opportunity of a bucket whose target Phase A
\* had met, a later one before an earlier one, and left one out
PhaseBOfAllocationWitness ==
    /\ dDone /\ ~dMissing /\ Len(PhaseA) >= 1 /\ Len(PhaseB) >= 2
    /\ Admitted \ Range(dResult) # {}
    /\ dOpps[PhaseB[1]].bucket = "educational"
    /\ TakenEducational = TargetOf("educational")
    /\ PhaseB[1] > PhaseB[2]

\* C38. The educational floor applies regardless of weight: a call with
\* maxArticles >= 1 and an educational opportunity of score >= minScore
\* returns, as its first element, the educational opportunity of the
\* highest score (the first of them in the input when scores are equal),
\* whatever the educational weight and the scores of the others.
EducationalFloorRule ==
    (dDone /\ ~dMissing /\ dMax >= 1 /\ AdmittedIn("educational") # {}) =>
        /\ Len(dResult) >= 1
        /\ dResult[1] \in AdmittedIn("educational")
        /\ RankIn(AdmittedIn("educational"), dResult[1]) = 1

\* C38 witness: the educational weight is 0, every other opportunity of
\* score >= minScore outscores the educational one, and the call returned
EducationalFloorRuleWitness ==
    /\ dDone /\ ~dMissing /\ dMax >= 1 /\ dWeights.educational = 0
    /\ AdmittedIn("educational") # {}
    /\ Admitted \ AdmittedIn("educational") # {}
    /\ \A i \in AdmittedIn("educational") :
          \A j \in Admitted \ AdmittedIn("educational") :
              dOpps[j].score > dOpps[i].score
    /\ Len(dResult) >= 2

\* C39. Selection invariant: decide() returns at most maxArticles
\* opportunities, each of them an input opportunity of score >= minScore,
\* and none of them twice; equal scores, equal opportunities at two places
\* of the input and the second pass make no difference.
SelectionInvariant ==
    (dDone /\ ~dMissing) =>
        /\ Len(dResult) <= dMax
        /\ \A k \in 1..Len(dResult) : dResult[k] \in Admitted
        /\ \A k, l \in 1..Len(dResult) : dResult[k] = dResult[l] => k = l

\* C39 witness: the input has the same opportunity at two places, the second
\* pass ran after a first pass that had selected something, and the call
\* returned maxArticles opportunities
SelectionInvariantWitness ==
    /\ dDone /\ ~dMissing /\ dMax >= 2 /\ Len(dResult) = dMax
    /\ \E i, j \in Admitted : i # j /\ dOpps[i] = dOpps[j]
    /\ LET pa == PhaseA IN Len(pa) >= 1 /\ Len(pa) < Len(dResult)

\* the keys bucketWeights, maxArticlesPerRun, minScoreThreshold of a usable
\* data/agent-config.json
HasAllKeys ==
    /\ configFile.state = "ok"
    /\ configFile.bucketWeights # <<>>
    /\ configFile.maxArticlesPerRun # <<>>
    /\ configFile.minScoreThreshold # <<>>

ZeroNotHonoured ==
    (dCalls = 1 /\ configFile.state = "ok") =>
        /\ configFile.maxArticlesPerRun = <<0>> =>
              /\ dMax = DefaultMaxArticles
              /\ ~dMissing => Len(dResult) = Min(DefaultMaxArticles, Cardinality(Admitted))
        /\ configFile.minScoreThreshold = <<0>> =>
              /\ dMin = DefaultMinScore
              /\ \A k \in 1..Len(dResult) : dOpps[dResult[k]].score >= DefaultMinScore

\* C40 witness: both keys are 0, three opportunities were selected and one
\* of score 0.2 was not
ZeroNotHonouredWitness ==
    /\ dCalls = 1 /\ configFile.state = "ok"
    /\ configFile.maxArticlesPerRun = <<0>> /\ configFile.minScoreThreshold = <<0>>
    /\ Len(dResult) = 3
    /\ \E i \in 1..Len(dOpps) : dOpps[i].score = 20 /\ i \notin Range(dResult)

\* C16 as claimed. The allocator never errors: every call of decide()
\* returns a list, also when the configuration has no bucketWeights.
AllocatorNeverErrors ==
    dDone => dThrew = "none"


(***************************************************************************)
(* Properties of the observation step                                      *)
(***************************************************************************)
\* detectMovers() has run
Detected == oPc \in {"save", "analyze", "failed"}

\* C11 as claimed. Mover threshold: a current market whose platform and id
\* are in the previous snapshot is a mover if and only if its yes_price
\* differs from the previous one by more than 0.10; a difference of exactly
\* 0.10 is not reported.
MoverThresholdRule ==
    (Detected /\ previousSnapshot.defined) =>
        \A i \in 1..Len(AllMarkets) :
            LET m == AllMarkets[i]
                j == PreviousIndex(previousSnapshot.markets, m)
                d == m.yes_price - previousSnapshot.markets[j].yes_price
            IN j # 0 => ((m \in Range(movers)) <=> (d > MoverThreshold \/ -d > MoverThreshold))

\* C12. Cold start: when main() finds no snapshot it can load, no market is
\* a mover.
ColdStart ==
    (Detected /\ oStart.state # "ok") =>
        /\ ~previousSnapshot.defined
        /\ movers = <<>>

\* C12 witness: a first run (no snapshot file) in which both providers
\* returned markets has finished its observation
ColdStartWitness ==
    /\ oPc = "analyze" /\ oStart = AbsentFile
    /\ Len(kalshi.value) > 0 /\ Len(polymarket.value) > 0

\* C17 as claimed. Snapshot save is atomic for load: in every state a
\* load of data/market-snapshot.json returns either what it returned when
\* the run started or the complete new snapshot.
SnapshotSaveAtomic ==
    \/ LoadPreviousSnapshot(snapshotFile) = LoadPreviousSnapshot(oStart)
    \/ LoadPreviousSnapshot(snapshotFile) = [defined |-> TRUE, markets |-> AllMarkets]

\* C18 as claimed. Provider fail-soft: a source whose call failed (fetch
\* rejected, or the response was not OK) contributes the empty list.
ProviderFailSoft ==
    /\ kalshi.status \in {"network", "status"} => kalshi.value = <<>>
    /\ polymarket.status \in {"network", "status"} => polymarket.value = <<>>
    /\ trends.status \in {"network", "status"} => trends.value = <<>>
\* none of the three fetches is still under way
AllFetched ==
    /\ kalshi.status # "pending" /\ polymarket.status # "pending"
    /\ trends.status # "pending"

\* C28. Observation join: the three fetches settle in any order; observe()
\* leaves its fetch step only when all three have settled, so detection,
\* the save and the analysis see all three results; and the movers are a
\* function of the three results and the previous snapshot alone, whatever
\* the order in which the fetches settled.
ObservationJoin ==
    /\ [](oPc \in {"save", "analyze", "failed"} => AllFetched)
    /\ [][(oPc = "fetch" /\ oPc' = "save") => AllFetched]_vars
    /\ [](Detected => movers = DetectMovers(kalshi.value \o polymarket.value,
                                            previousSnapshot))
    /\ [][(oPc = "fetch" /\ oPc' = "fetch") =>
            /\ kalshi.status # "pending" => kalshi' = kalshi
            /\ polymarket.status # "pending" => polymarket' = polymarket
            /\ trends.status # "pending" => trends' = trends]_vars

\* C28 witness: all three sources delivered, the feed with a status that is
\* not OK, and the observation went on to the analysis with a mover
ObservationJoinWitness ==
    /\ oPc = "analyze" /\ AllFetched
    /\ Len(kalshi.value) > 0 /\ Len(polymarket.value) > 0 /\ Len(trends.value) > 0
    /\ trends.status = "status"
    /\ movers # <<>>

\* the entries of the previous snapshot with the platform and id of m
Counterparts(m) ==
    {j \in 1..Len(previousSnapshot.markets) :
        /\ previousSnapshot.markets[j].platform = m.platform
        /\ previousSnapshot.markets[j].id = m.id}

\* C30. Mover matching key: a mover has an entry with its platform and its
\* id in the previous snapshot whose yes_price differs from its own, and a
\* current market without such an entry (a new market, or one whose id the
\* previous snapshot has under the other platform only) is not a mover,
\* whatever its price; detection completes in either case.
MoverMatchingKey ==
    (Detected /\ previousSnapshot.defined) =>
        \A i \in 1..Len(AllMarkets) :
            LET m == AllMarkets[i]
            IN /\ Counterparts(m) = {} => m \notin Range(movers)
               /\ m \in Range(movers) =>
                     \E j \in Counterparts(m) :
                         previousSnapshot.markets[j].yes_price # m.yes_price

\* C30 witness: the previous snapshot has m1 under kalshi only, at 0.30;
\* the current polymarket market m1 is at 0.50 and is not a mover
MoverMatchingKeyWitness ==
    /\ Detected /\ previousSnapshot.defined
    /\ \E j \in 1..Len(previousSnapshot.markets) :
          /\ previousSnapshot.markets[j].platform = "kalshi"
          /\ previousSnapshot.markets[j].yes_price = 30
    /\ \A j \in 1..Len(previousSnapshot.markets) :
          previousSnapshot.markets[j].platform # "polymarket"
    /\ \E i \in 1..Len(AllMarkets) :
          /\ AllMarkets[i].platform = "polymarket" /\ AllMarkets[i].yes_price = 50
          /\ AllMarkets[i] \notin Range(movers)


(***************************************************************************)
(* Properties of the run                                                   *)
(***************************************************************************)
AllSettled == \A k \in 1..Len(status) : status[k] \in Settled

\* the assignments whose generation succeeded, in order
RECURSIVE ProducedFrom(_)
ProducedFrom(k) ==
    IF k > Len(assignments) THEN <<>>
    ELSE IF status[k] = "Produced"
         THEN <<assignments[k]>> \o ProducedFrom(k + 1)
         ELSE ProducedFrom(k + 1)

Failures == Cardinality({k \in 1..Len(status) : status[k] = "Failed"})

\* the slugs the Ledger held, readably, when the run started
StartSlugs ==
    {ReadArray(start.inventory)[i].slug : i \in 1..Len(ReadArray(start.inventory))}

\* the Ledger entries this run created
CreatedByRun ==
    {i \in 1..Len(inventoryFile.entries) : inventoryFile.entries[i].createdAt = Now}

\* the entries of the decision log this run appended
LoggedByRun ==
    {i \in 1..Len(decisionsFile.entries) : decisionsFile.entries[i].timestamp = Now}

\* submit() of this run has rewritten the Ledger
LedgerUpdated ==
    /\ Len(drafts) > 0 /\ written = Len(drafts)
    /\ pc \in {"git", "pr", "slack", "log", "done", "failed"}
    /\ error # "inventory"

\* C1 as claimed. Admission dedup: no assignment of a run has a slug that
\* was in the Ledger when the run started, whatever its score.
AdmissionDedup ==
    \A k \in 1..Len(assignments) : assignments[k].slug \notin StartSlugs

\* C2. Ledger slug uniqueness: no two Ledger entries share a slug, and while
\* the Ledger is readable every entry it held at the start of the run is
\* still there, unchanged and in place.
LedgerSlugUniqueness ==
    /\ \A i, j \in 1..Len(inventoryFile.entries) :
          i # j => inventoryFile.entries[i].slug # inventoryFile.entries[j].slug
    /\ (start.inventory.state # "corrupt" /\ inventoryFile.state # "corrupt")
          => /\ Len(inventoryFile.entries) >= Len(start.inventory.entries)
             /\ \A i \in 1..Len(start.inventory.entries) :
                   inventoryFile.entries[i] = start.inventory.entries[i]

\* C2 witness: a run has rewritten a readable Ledger after producing a draft
\* for a slug that was already in it, and two drafts for one slug
LedgerSlugUniquenessWitness ==
    /\ LedgerUpdated /\ start.inventory.state = "ok" /\ inventoryFile.state = "ok"
    /\ \E d \in 1..Len(drafts) : drafts[d].slug \in StartSlugs
    /\ \E d, e \in 1..Len(drafts) : d # e /\ drafts[d].slug = drafts[e].slug

\* C3. Partial-failure isolation: once generation has begun, every
\* assignment is eventually Produced or Failed, main() leaves the loop only
\* when all are, and when all are settled the drafts are exactly the
\* assignments whose generation succeeded.
PartialFailureIsolation ==
    /\ (pc = "create") ~> AllSettled
    /\ [][(pc = "create" /\ pc' # "create") => AllSettled']_vars
    /\ [](AllSettled =>
            /\ Len(drafts) = Len(ProducedFrom(1))
            /\ \A d \in 1..Len(drafts) :
                  /\ drafts[d].slug = ProducedFrom(1)[d].slug
                  /\ drafts[d].title = ProducedFrom(1)[d].title)

\* C3 witness: three assignments, the second Failed, the others Produced and
\* handed to submit()
PartialFailureIsolationWitness ==
    /\ Len(assignments) = 3 /\ status = <<"Produced", "Failed", "Produced">>
    /\ pc = "write" /\ Len(drafts) = 2

\* C4 as claimed. Failure accounting: a run that ended after its Ledger
\* update, with n assignments of which k failed, created n - k Ledger entries
\* and appended a DecisionLogEntry that records k failures.
FailureAccounting ==
    (pc \in {"done", "failed"} /\ LedgerUpdated /\ error # "log")
        => /\ Cardinality(CreatedByRun) = Len(assignments) - Failures
           /\ \E i \in LoggedByRun :
                 Len(decisionsFile.entries[i].selected)
                    - Len(decisionsFile.entries[i].produced) = Failures

\* C5. Artifact before Ledger: every Ledger entry has its artifact file, in
\* every state, killed runs included.
ArtifactBeforeLedger ==
    \A i \in 1..Len(inventoryFile.entries) :
        GetContentPath(inventoryFile.entries[i]) \in DOMAIN files

\* C5 witness: a run killed after its Ledger update, during an earlier kill
\* of which artifact files were left without a Ledger entry
ArtifactBeforeLedgerWitness ==
    /\ pc = "killed" /\ CreatedByRun # {}
    /\ DOMAIN start.files # {} /\ start.inventory = AbsentFile

OneLogEntryPerRun ==
    (pc \in {"done", "failed"} /\ LedgerUpdated /\ error # "log")
        => Cardinality(LoggedByRun) = 1

\* C8. No-op on total failure: while no draft has been produced, the Ledger
\* file and the content directory are as they were when the run started,
\* and main() never enters submit().
NoDraftsNoChange ==
    Len(drafts) = 0
        => /\ inventoryFile = start.inventory
           /\ files = start.files
           /\ pc \notin {"write", "inventory", "git", "pr", "slack", "log"}

\* C8 witness: a run over a non-empty Ledger has returned after generation
\* failed for each of its assignments
NoDraftsNoChangeWitness ==
    /\ pc = "done" /\ Len(assignments) >= 2
    /\ \A k \in 1..Len(status) : status[k] = "Failed"
    /\ Len(inventoryFile.entries) > 0 /\ DOMAIN files # {}

\* C19 as claimed. A run that ended without a draft (no opportunities, no
\* assignments, or no draft produced) exited with a nonzero code and a
\* logged reason.
ZeroOutputIsFailure ==
    (pc \in {"done", "failed"} /\ Len(drafts) = 0)
        => (pc = "failed" /\ error # "none")

\* C20. A durable-write error is fatal: when the write of an artifact file
\* throws, the run exits as failed from the write loop and stays so, the
\* Ledger and the decision log are as they were when the run started, and
\* no later step of submit() is taken.
DurableWriteErrorFatal ==
    /\ [](error = "write" =>
            /\ pc = "failed"
            /\ inventoryFile = start.inventory
            /\ decisionsFile = start.log)
    /\ [][(error' = "write" /\ error # "write") => (pc = "write" /\ pc' = "failed")]_vars
    /\ [][error = "write" => pc' = "failed"]_vars

\* C20 witness: the write of a later draft of the batch threw after the file
\* of an earlier draft had been written, over a Ledger that held entries
DurableWriteErrorFatalWitness ==
    /\ error = "write" /\ written >= 1 /\ files # start.files
    /\ start.inventory.state = "ok" /\ Len(start.inventory.entries) > 0

\* C22 as claimed. Submission after durability: while submit() is at its
\* git, pull-request or notification step, the Ledger has been rewritten
\* and the DecisionLogEntry of the run has been appended.
SubmissionAfterDurable ==
    pc \in {"git", "pr", "slack"} => (LedgerUpdated /\ LoggedByRun # {})

\* C23 as claimed. Failures are recorded: a run that selected at least one
\* assignment and returned has appended a DecisionLogEntry that lists every
\* selected assignment, the failed ones included.
FailuresAreLogged ==
    (pc = "done" /\ Len(assignments) > 0) =>
        \E i \in LoggedByRun :
            Len(decisionsFile.entries[i].selected) = Len(assignments)

\* the steps of main() before updateInventory() of submit()
BeforeLedgerWrite == {"idle", "analyze", "decide", "create", "write"}

\* C24. Kill safety: up to the Ledger write of submit() the Ledger and the
\* decision log are as they were when the run started, and a kill in one of
\* these steps leaves them so; only artifact files may have changed.
KillSafety ==
    /\ [](pc \in BeforeLedgerWrite =>
            inventoryFile = start.inventory /\ decisionsFile = start.log)
    /\ [][(pc \in BeforeLedgerWrite /\ pc' = "killed") =>
            (inventoryFile' = start.inventory /\ decisionsFile' = start.log)]_vars

\* C24 witness: the run was killed between the writes of two artifact files,
\* over a Ledger and a decision log that held entries
KillSafetyWitness ==
    /\ pc = "killed" /\ written >= 1 /\ written < Len(drafts)
    /\ files # start.files
    /\ Len(start.inventory.entries) > 0 /\ Len(start.log.entries) > 0

\* the one step an assignment may take
AssignmentSteps ==
    { <<"Pending", "Generating">>, <<"Generating", "Produced">>,
      <<"Generating", "Failed">> }

\* C27. Generation is sequential and exactly-once: at most one assignment
\* is Generating, an assignment is taken up only when all before it are
\* Produced or Failed, an assignment only moves Pending -> Generating ->
\* Produced or Failed, and the generation call is made once for every
\* assignment that left Pending and never again.
GenerationSequential ==
    /\ [](Cardinality({k \in 1..Len(status) : status[k] = "Generating"}) <= 1)
    /\ [](\A k \in 1..Len(status) :
            /\ status[k] # "Pending" => \A j \in 1..(k - 1) : status[j] \in Settled
            /\ calls[k] = IF status[k] = "Pending" THEN 0 ELSE 1)
    /\ [][\A k \in (1..Len(status)) \cap (1..Len(status')) :
              status'[k] # status[k] => <<status[k], status'[k]>> \in AssignmentSteps]_vars

\* C27 witness: the second assignment is being generated after the first
\* one failed, and a third is waiting
GenerationSequentialWitness ==
    /\ pc = "create" /\ Len(status) = 3
    /\ status = <<"Failed", "Generating", "Pending">>
    /\ calls = <<1, 1, 0>>

\* C31 as claimed. Malformed generator output is a failed assignment: no
\* draft of the run has an empty text, and no artifact file is empty.
MalformedOutputFails ==
    /\ \A k \in 1..Len(drafts) : Len(drafts[k].content) > 0
    /\ \A p \in DOMAIN files : Len(files[p]) > 0

\* the drafts of the run with the slug of draft d, and those with its path
SameSlug(d) == {k \in 1..Len(drafts) : drafts[k].slug = drafts[d].slug}

SamePath(d) ==
    {k \in 1..Len(drafts) : GetContentPath(drafts[k]) = GetContentPath(drafts[d])}

\* the Ledger entries with the slug of draft d
EntriesOf(d) ==
    {i \in 1..Len(inventoryFile.entries) :
        inventoryFile.entries[i].slug = drafts[d].slug}

First(S) == CHOOSE k \in S : \A j \in S : k <= j

Last(S) == CHOOSE k \in S : \A j \in S : j <= k

\* C33. Duplicate slug within one batch: when two drafts of a run have the
\* same slug and the Ledger did not have it, the rewritten Ledger has
\* exactly one entry for the slug, created by this run with the title and
\* the word count of the first of these drafts, and the artifact path the
\* drafts share holds the content of the last of them.
DuplicateSlugInBatch ==
    LedgerUpdated =>
        \A d \in 1..Len(drafts) :
            (Cardinality(SameSlug(d)) >= 2 /\ drafts[d].slug \notin StartSlugs) =>
                /\ Cardinality(EntriesOf(d)) = 1
                /\ \A i \in EntriesOf(d) :
                      /\ i \in CreatedByRun
                      /\ inventoryFile.entries[i].title = drafts[First(SameSlug(d))].title
                      /\ inventoryFile.entries[i].wordCount
                            = drafts[First(SameSlug(d))].wordCount
                /\ files[GetContentPath(drafts[d])] = drafts[Last(SamePath(d))].content

\* C33 witness: two opportunities with one slug were selected and both
\* generated, with different texts; the Ledger has the title of the first,
\* the file the text of the second
DuplicateSlugInBatchWitness ==
    /\ LedgerUpdated /\ pc = "done"
    /\ \E d, l \in 1..Len(drafts) :
          /\ d < l /\ drafts[d].slug = drafts[l].slug
          /\ drafts[d].slug \notin StartSlugs
          /\ drafts[d].title # drafts[l].title
          /\ drafts[d].content # drafts[l].content
          /\ GetContentPath(drafts[d]) = GetContentPath(drafts[l])
          /\ files[GetContentPath(drafts[d])] = drafts[l].content
          /\ \E i \in EntriesOf(d) : inventoryFile.entries[i].title = drafts[d].title

\* C34. Re-producing a slug that is in the Ledger: when a draft of the run
\* has a slug the Ledger held at the start, the rewritten Ledger has the
\* entries of that slug it had, unchanged and in place, and no other; the
\* artifact file at the draft's path holds the new content; and the
\* DecisionLogEntry the run appends lists the slug as produced.
ReproducedSlug ==
    (LedgerUpdated /\ start.inventory.state = "ok") =>
        \A d \in 1..Len(drafts) :
            drafts[d].slug \in StartSlugs =>
                /\ EntriesOf(d) = {i \in 1..Len(start.inventory.entries) :
                                     start.inventory.entries[i].slug = drafts[d].slug}
                /\ \A i \in EntriesOf(d) :
                      inventoryFile.entries[i] = start.inventory.entries[i]
                /\ Len(inventoryFile.entries) - Len(start.inventory.entries)
                      = Cardinality({drafts[k].slug : k \in 1..Len(drafts)} \ StartSlugs)
                /\ files[GetContentPath(drafts[d])] = drafts[Last(SamePath(d))].content
                /\ \A i \in LoggedByRun :
                      \E k \in 1..Len(decisionsFile.entries[i].produced) :
                          decisionsFile.entries[i].produced[k].slug = drafts[d].slug

\* C34 witness: the run returned after it had generated one draft, for a
\* slug of the Ledger; the file has the new text, the Ledger is as it was
\* and the log entry of the run names the slug
ReproducedSlugWitness ==
    /\ pc = "done" /\ LedgerUpdated /\ start.inventory.state = "ok"
    /\ LoggedByRun # {}
    /\ Len(drafts) = 1 /\ drafts[1].slug \in StartSlugs
    /\ files[GetContentPath(drafts[1])] # start.files[GetContentPath(drafts[1])]
    /\ inventoryFile.entries = start.inventory.entries

\* C37. One malformed opportunity discards the whole batch: when the score
\* of one recommendation of the response is missing or not a number,
\* analyze() returns no opportunity and the run returns at once: there are
\* no assignments and no drafts, and the artifact files, the Ledger and the
\* decision log are as they were at the start.
MalformedScoreDiscardsBatch ==
    (\E i \in 1..Len(recommendations) : recommendations[i].kind # "number") =>
        /\ opportunities = <<>> /\ assignments = <<>> /\ drafts = <<>>
        /\ pc = "done"
        /\ files = start.files
        /\ inventoryFile = start.inventory /\ decisionsFile = start.log

\* C37 witness: the response has a recommendation of score 0.9 and one
\* whose score is a string, and the run has returned
MalformedScoreDiscardsBatchWitness ==
    /\ pc = "done" /\ Len(recommendations) = 2
    /\ \E i, j \in 1..2 :
          /\ recommendations[i].kind = "number" /\ recommendations[i].rec.score = 90
          /\ recommendations[j].kind = "text"

\* C35. The snapshot is replaced before scoring: when step 2 of a run
\* begins, the stored snapshot is the list of markets the run fetched,
\* however the run ends; and the next run, if it fetches the same list,
\* reports no mover, those the earlier run reported included.
SnapshotReplacedBeforeScoring ==
    oPc = "analyze" =>
        /\ snapshotFile = [state |-> "ok", entries |-> AllMarkets]
        /\ (oEarlier.ran /\ AllMarkets = oEarlier.markets) => movers = <<>>

\* C35 witness: the earlier run reported a mover; this run fetched the same
\* markets at the same prices and reports none
SnapshotReplacedBeforeScoringWitness ==
    /\ oPc = "analyze" /\ oEarlier.ran
    /\ oEarlier.movers # <<>>
    /\ AllMarkets = oEarlier.markets
    /\ movers = <<>>

\* the movers of a provider
MoversOf(platform) == {i \in 1..Len(movers) : movers[i].platform = platform}

\* C36. A provider outage erases the provider from the snapshot: when the
\* fetch of a provider failed in a run, the snapshot the run saved has no
\* market of that provider, and the next run reports no market of that
\* provider as a mover; when both failed, the snapshot is the empty list and
\* the next run reports no mover.
OutageErasesProvider ==
    oPc = "analyze" =>
        /\ kalshi.status # "ok" =>
              \A i \in 1..Len(snapshotFile.entries) :
                  snapshotFile.entries[i].platform # "kalshi"
        /\ polymarket.status # "ok" =>
              \A i \in 1..Len(snapshotFile.entries) :
                  snapshotFile.entries[i].platform # "polymarket"
        /\ (kalshi.status # "ok" /\ polymarket.status # "ok") =>
              snapshotFile.entries = <<>>
        /\ (oEarlier.ran /\ oEarlier.kalshi # "ok") => MoversOf("kalshi") = {}
        /\ (oEarlier.ran /\ oEarlier.polymarket # "ok") => MoversOf("polymarket") = {}
        /\ (oEarlier.ran /\ oEarlier.kalshi # "ok" /\ oEarlier.polymarket # "ok") =>
              movers = <<>>

\* C36 witness: kalshi had m1 at 0.30 two runs ago, its fetch failed in the
\* earlier run, and m1 at 0.50 is no mover now, while a polymarket market is
OutageErasesProviderWitness ==
    /\ oPc = "analyze" /\ oEarlier.ran
    /\ oEarlier.kalshi = "network" /\ oEarlier.polymarket = "ok"
    /\ oEarlier.previous.defined
    /\ \E j \in 1..Len(oEarlier.previous.markets) :
          oEarlier.previous.markets[j]
              = [platform |-> "kalshi", id |-> "m1", yes_price |-> 30]
    /\ \E i \in 1..Len(AllMarkets) :
          AllMarkets[i] = [platform |-> "kalshi", id |-> "m1", yes_price |-> 50]
    /\ MoversOf("kalshi") = {}
    /\ MoversOf("polymarket") # {}

\* the slugs of the Ledger file
LedgerSlugs ==
    {inventoryFile.entries[i].slug : i \in 1..Len(inventoryFile.entries)}

\* the runs whose DecisionLogEntry the log file holds
LoggedRuns ==
    {r \in Runs : \E i \in 1..Len(decisionsFile.entries) :
                      decisionsFile.entries[i].timestamp = RunTime(r)}

\* C32. No defense against concurrent runs: a run writes to the Ledger the
\* array it parsed earlier plus its own entries, and to the decision log the
\* array it parsed earlier plus its own entry, whatever the other run has
\* written in between; only a run that reads after the other one is done
\* keeps the other one's entries.
NoDefenseAgainstRace ==
    /\ [][\A r \in Runs :
            (rPc[r] = "write-inventory" /\ rPc'[r] = "log") =>
                inventoryFile'.entries
                    = FoldInventory(rRead[r], rDrafts[r], RunTime(r))]_vars
    /\ [][\A r \in Runs :
            (rPc[r] = "write-log" /\ rPc'[r] = "done") =>
                /\ Len(decisionsFile'.entries) = Len(rRead[r]) + 1
                /\ SubSeq(decisionsFile'.entries, 1, Len(rRead[r])) = rRead[r]]_vars
    /\ [](\A r, q \in Runs :
            (rPc[r] = "done" /\ rPc[q] = "inventory") =>
                /\ \A d \in 1..Len(rDrafts[r]) : rDrafts[r][d].slug \in LedgerSlugs
                /\ r \in LoggedRuns)

\* C32 witness: both runs are done; a slug for which the first run added a
\* Ledger entry is not in the Ledger, and the log has no entry of that run
NoDefenseAgainstRaceWitness ==
    /\ \A r \in Runs : rPc[r] = "done"
    /\ start.inventory.state = "ok" /\ start.log.state = "ok"
    /\ \E d \in 1..Len(rDrafts[1]) : rDrafts[1][d].slug \notin LedgerSlugs
    /\ 1 \notin LoggedRuns
    /\ \A i \in 1..Len(start.inventory.entries) :
          start.inventory.entries[i] = inventoryFile.entries[i]

====
